---- MODULE Spec2Model ----
(***************************************************************************)
(* Model of the trendygenie admin panel: the authentication context and    *)
(* route guard, the legal-page service, the status-update mutations, the   *)
(* data-access result shape, the list pagination arithmetic, retryOperation *)
(* and the entity list hooks.                                              *)
(*                                                                         *)
(* Each subsystem has its own specification (Spec, SpecLegal, ...)         *)
(* over its own variables; the variables of the other subsystems are held  *)
(* at their idle values.                                                   *)
(***************************************************************************)
EXTENDS Integers, Naturals, Sequences, FiniteSets, TLC

VARIABLES
  \* ---- backend (Supabase auth + users table) as the auth code sees it
  session,      \* the client's auth session: "none" or the signed-in account id
  accounts,     \* account ids that exist in auth + users table
  \* ---- AuthProvider state (src/src/contexts/AuthContext.tsx)
  user,         \* useState<User | null>
  loading,      \* useState(true)
  error,        \* useState<ApiError | null>, the message or NoError
  cache,        \* localStorage[AUTH_CACHE_KEY]: NoCache or [user, age]
  timer,        \* the 15 s fallback timeout: "armed" | "done"
  verify,       \* the getCurrentUser call of initAuth: [kind, res]
  evq,          \* users fetched by auth-event handlers, callback not yet run
  login,        \* the login() call in flight: [pc, acct, pending]
  logoutPc,     \* the logout() call in flight: "idle" | "signOut"
  reg,          \* the register() call in flight: "idle" | "signUp" | "insert"
  stale,        \* which pending getCurrentUser results, of those that can give
                \* a user, were started before the latest logout() resolved
  \* ---- router
  path,         \* current location
  from,         \* location.state.from, "none" when absent
  \* ---- one call of a service function, for the claims about return values
  call,         \* the function called and its inputs (backend outcomes included)
  ret,          \* what it resolved to, NoRet before it has
  \* ---- legal_pages table and the legal-page service calls of the admin sessions
  pages,        \* the rows of legal_pages: records [id, slug]
  nextId,       \* the id the store gives the next inserted row
  lcall,        \* per admin session, its createLegalPage/updateLegalPage call in flight
  lret,         \* per admin session, what its last call returned
  faults,       \* whether the store may fail a query (report an error, throw)
  \* ---- one of the tables businesses / services / companies and its status updates
  entity,       \* which table the rows are of: "business" | "service" | "company"
  rows,         \* id -> row, the fields a status update can reach and one it cannot
  now,          \* the clock behind new Date().toISOString()
  scall,        \* the arguments of the latest status update: [id, status]
  \* ---- one retryOperation call (errorHandling utilities)
  retry,        \* its arguments, its position in the loop and what it has done
  \* ---- one entity list hook (useBusinesses and its siblings) and its table
  hook,         \* the hook's React state: rows, pagination, filters, sort, error
  btable,       \* the backend table: id -> status, or NoRow
  inflight,     \* the list requests sent and not yet answered, by their params
  mcalls,       \* the delete calls awaiting the backend, with what they captured
  hret,         \* what the latest updateStatus / delete call resolved to
  hlog,         \* requests sent so far, how the latest list request ended, and
                \* the latest call into the hook (or "response")
  \* ---- getUserStats (user service)
  utable,       \* the users table: per id, whether the row exists, is_active, user_type
  ustats,       \* the getUserStats call: its position and the counts read so far
  \* ---- usePagination
  pg            \* page, pageSize, total of the hook, its options, and the latest call

authVars == <<session, accounts, user, loading, error, cache, timer, verify, evq,
              login, logoutPc, reg, stale, path, from>>

fnVars == <<call, ret>>

legalVars == <<pages, nextId, lcall, lret, faults>>

statusVars == <<entity, rows, now, scall>>

retryVars == <<retry>>

hookVars == <<hook, btable, inflight, mcalls, hret, hlog>>

statsVars == <<utable, ustats>>

pgVars == <<pg>>

\* The variables each subsystem leaves alone.
nonAuthVars   == <<fnVars, legalVars, statusVars, retryVars, hookVars,
                  statsVars, pgVars>>
nonFnVars     == <<authVars, legalVars, statusVars, retryVars, hookVars,
                  statsVars, pgVars>>
nonLegalVars  == <<authVars, fnVars, statusVars, retryVars, hookVars,
                  statsVars, pgVars>>
nonStatusVars == <<authVars, fnVars, legalVars, retryVars, hookVars,
                  statsVars, pgVars>>
nonRetryVars  == <<authVars, fnVars, legalVars, statusVars, hookVars,
                  statsVars, pgVars>>
nonHookVars   == <<authVars, fnVars, legalVars, statusVars, retryVars,
                  statsVars, pgVars>>
nonStatsVars  == <<authVars, fnVars, legalVars, statusVars, retryVars, hookVars,
                  pgVars>>
nonPgVars     == <<authVars, fnVars, legalVars, statusVars, retryVars, hookVars,
                  statsVars>>

vars == <<authVars, fnVars, legalVars, statusVars, retryVars, hookVars, statsVars,
         pgVars>>

----------------------------------------------------------------------------
(* Values *)

NoUser  == [id |-> "none", user_type |-> "none"]
NoError == "null"
NoCache == [user |-> NoUser, age |-> 0, present |-> FALSE]
NoRes   == [user |-> NoUser, error |-> NoError, ready |-> FALSE]

\* The accounts of the model and the user_type of their profile row.
AllAccounts == {"adm", "cus", "new"}

UserType(a) == IF a = "cus" THEN "customer" ELSE "admin"

Profile(a) == [id |-> a, user_type |-> UserType(a)]

\* The credentials typed into the login form: of the admin account, of the
\* customer account, or of no account.
Credentials == {"adm", "cus", "bad"}

\* What a backend call can do: answer, report an error, or reject/throw.
Outcomes == {"ok", "error", "throw"}

\* AUTH_CACHE_EXPIRY, in minutes (5 * 60 * 1000 ms).
AUTH_CACHE_EXPIRY == 5

\* Number of auth-event handlers that may be awaiting delivery at once.
MaxPendingEvents == 1

LoginPath    == "/login"
RegisterPath == "/register"
ProtectedPaths == {"/", "/users"}
Paths == {LoginPath, RegisterPath} \cup ProtectedPaths

\* ApiError messages. A message supplied by the backend is abstracted to one value,
\* the message of a caught exception (a withTimeout rejection included) to another.
ErrBackend  == "backend error"
ErrRejected == "exception message"
ErrDenied   == "Access denied. Admin privileges required."
ErrProfile  == "Failed to verify user profile."
ErrNoUser   == "Authentication failed. Please try again."
ErrFallback == "Authentication verification timed out"

Res(u, e) == [user |-> u, error |-> e, ready |-> TRUE]


\* SessionResponse of authService.login, with the trace of the call that made it:
\* accepted = signInWithPassword accepted the credentials, signOutCalled =
\* supabase.auth.signOut() was invoked before the return.
NoLoginResult ==
  [done |-> FALSE, session |-> FALSE, user |-> NoUser, error |-> NoError,
   accepted |-> FALSE, signOutCalled |-> FALSE]

LoginResponse(hasSession, u, e, acc, so) ==
  [done |-> TRUE, session |-> hasSession, user |-> u, error |-> e,
   accepted |-> acc, signOutCalled |-> so]

NoLogin == [pc |-> "idle", acct |-> "none", pending |-> NoLoginResult]

\* No pending getCurrentUser result dates from before a logout.
NoStale == [verify |-> FALSE, events |-> {}]

----------------------------------------------------------------------------
(* Pure functions of the auth code *)

\* getCachedAuth as it would be without the expiry test.
getCachedAuth_NoExpiry(c) == IF c.present THEN c ELSE NoCache

\* getCachedAuth: the parsed entry when it is younger than AUTH_CACHE_EXPIRY.
getCachedAuth(c) ==
  IF c.present /\ c.age < AUTH_CACHE_EXPIRY THEN c ELSE NoCache

setCachedAuth(u) == [user |-> u, age |-> 0, present |-> TRUE]

\* getCurrentUser as it would be without the user_type check on the profile.
getCurrentUser_NoRoleCheck(o1, o2, o3) ==
  IF o1 = "throw" THEN Res(NoUser, ErrRejected)
  ELSE IF o1 = "error" THEN Res(NoUser, ErrBackend)
  ELSE IF session = "none" THEN Res(NoUser, NoError)
  ELSE IF o2 = "throw" THEN Res(NoUser, ErrRejected)
  ELSE IF o2 = "error" THEN Res(NoUser, ErrBackend)
  ELSE IF o3 = "throw" THEN Res(NoUser, ErrRejected)
  ELSE IF o3 = "error" THEN Res(NoUser, ErrBackend)
  ELSE Res(Profile(session), NoError)

\* authService.getCurrentUser against the backend as it is now. o1, o2, o3 are the
\* outcomes of getSession, getUser and the profile query, each under withTimeout.
getCurrentUser(o1, o2, o3) ==
  IF o1 = "throw" THEN Res(NoUser, ErrRejected)
  ELSE IF o1 = "error" THEN Res(NoUser, ErrBackend)
  ELSE IF session = "none" THEN Res(NoUser, NoError)
  ELSE IF o2 = "throw" THEN Res(NoUser, ErrRejected)
  ELSE IF o2 = "error" THEN Res(NoUser, ErrBackend)
  ELSE IF o3 = "throw" THEN Res(NoUser, ErrRejected)
  ELSE IF o3 = "error" THEN Res(NoUser, ErrBackend)
  ELSE IF Profile(session).user_type # "admin" THEN Res(NoUser, ErrDenied)
  ELSE Res(Profile(session), NoError)

\* Every result a getCurrentUser call made now can resolve to.
CurrentUserResults == {getCurrentUser(o1, o2, o3) : o1, o2, o3 \in Outcomes}

\* authService.onAuthStateChange: what the handler does with (event, session).
onAuthStateChange(event, hasSession) ==
  IF event = "SIGNED_OUT" \/ ~hasSession THEN "null"
  ELSE IF event = "SIGNED_IN" \/ event = "TOKEN_REFRESHED" THEN "fetch"
  ELSE "ignore"

\* The value of `loading` the fallback timer's closure captured: the effect runs
\* once, after the first render, where useState(true) gave true.
capturedLoading == TRUE

\* Where the router settles from location p (with state.from = f):
\* LoginPage and RegisterPage navigate to /dashboard (which redirects to /) when
\* authenticated; ProtectedRoute shows the spinner while loading and otherwise
\* redirects an unauthenticated visit to /login with state.from = location.
Route(p, f, ld, u) ==
  IF p \in {LoginPath, RegisterPath}
  THEN IF u # NoUser THEN [path |-> "/", from |-> "none"]
       ELSE [path |-> p, from |-> f]
  ELSE IF ld THEN [path |-> p, from |-> f]
       ELSE IF u = NoUser THEN [path |-> LoginPath, from |-> p]
       ELSE [path |-> p, from |-> f]

\* LoginPage and RegisterPage clear the context error in an effect that depends
\* on error itself, so no error survives a render of either page.
ErrorShown(p, e) == IF p \in {LoginPath, RegisterPath} THEN NoError ELSE e

\* One render pass of the application with the new auth state (u, ld, e) at
\* location (p, f): the state setters take effect and the route effects run.
Render(p, f, u, ld, e) ==
  LET r == Route(p, f, ld, u) IN
    /\ user' = u
    /\ loading' = ld
    /\ path' = r.path
    /\ from' = r.from
    /\ error' = ErrorShown(r.path, e)

\* ProtectedRoute renders its children (an admin page inside MainLayout).
AdminPageRendered == path \in ProtectedPaths /\ ~loading /\ user # NoUser

----------------------------------------------------------------------------
(* AuthProvider: mount, initial verification, fallback timer, auth events *)

\* The mount effect of AuthProvider at location p: initAuth runs up to its first
\* await (a valid cached user is adopted at once and verified in the background,
\* otherwise verifyAuth starts), the fallback timer is armed and the auth
\* subscription is made. In-flight calls of a previous page load are gone.
Mount(p) ==
  LET cached == getCachedAuth(cache) IN
    /\ IF cached.present /\ cached.user # NoUser
       THEN /\ Render(p, "none", cached.user, FALSE, NoError)
            /\ verify' = [kind |-> "bg", res |-> NoRes]
       ELSE /\ Render(p, "none", NoUser, TRUE, NoError)
            /\ verify' = [kind |-> "fg", res |-> NoRes]
    /\ timer' = "armed"
    /\ evq' = {}
    /\ login' = NoLogin
    /\ logoutPc' = "idle"
    /\ reg' = "idle"
    /\ UNCHANGED <<session, accounts, cache>>
  /\ stale' = NoStale
  /\ UNCHANGED nonAuthVars

\* The operator (re)loads the application at a URL.
Visit == \E p \in Paths : Mount(p)

\* The getCurrentUser call of verifyAuth / verifyAuthInBackground resolves. Every
\* backend call inside is under withTimeout, so it always resolves.
VerifyAnswer ==
  /\ verify.kind # "none"
  /\ ~verify.res.ready
  /\ \E r \in CurrentUserResults : verify' = [verify EXCEPT !.res = r]
  /\ UNCHANGED <<session, accounts, user, loading, error, cache, timer, evq,
                 login, logoutPc, reg, path, from>>
  /\ UNCHANGED <<stale, nonAuthVars>>

\* verifyAuth after its await (isMounted was passed as true).
VerifyAuth ==
  /\ verify.kind = "fg"
  /\ verify.res.ready
  /\ LET r == verify.res IN
       IF r.error # NoError
       THEN /\ Render(path, from, NoUser, FALSE, r.error)
            /\ cache' = NoCache
       ELSE IF r.user # NoUser
       THEN /\ Render(path, from, r.user, FALSE, NoError)
            /\ cache' = setCachedAuth(r.user)
       ELSE /\ Render(path, from, NoUser, FALSE, NoError)
            /\ cache' = NoCache
  /\ verify' = [kind |-> "none", res |-> NoRes]
  /\ UNCHANGED <<session, accounts, timer, evq, login, logoutPc, reg>>
  /\ stale' = [stale EXCEPT !.verify = FALSE]
  /\ UNCHANGED nonAuthVars

\* verifyAuthInBackground after its await: loading is not touched.
VerifyAuthInBackground ==
  /\ verify.kind = "bg"
  /\ verify.res.ready
  /\ LET r == verify.res IN
       IF r.error # NoError \/ r.user = NoUser
       THEN /\ Render(path, from, NoUser, loading, r.error)
            /\ cache' = NoCache
       ELSE /\ Render(path, from, r.user, loading, NoError)
            /\ cache' = setCachedAuth(r.user)
  /\ verify' = [kind |-> "none", res |-> NoRes]
  /\ UNCHANGED <<session, accounts, timer, evq, login, logoutPc, reg>>
  /\ stale' = [stale EXCEPT !.verify = FALSE]
  /\ UNCHANGED nonAuthVars

\* The 15 s fallback timeout fires (once per mount).
FallbackTimeout ==
  /\ timer = "armed"
  /\ timer' = "done"
  /\ IF capturedLoading
     THEN Render(path, from, user, FALSE, ErrFallback)
     ELSE UNCHANGED <<user, loading, error, path, from>>
  /\ UNCHANGED <<session, accounts, cache, verify, evq, login,
                 logoutPc, reg>>
  /\ UNCHANGED <<stale, nonAuthVars>>

\* The callback AuthProvider gives to onAuthStateChange.
AuthCallback(u) ==
  /\ IF u # NoUser
     THEN cache' = setCachedAuth(u)
     ELSE cache' = NoCache
  /\ Render(path, from, u, FALSE, NoError)

AuthEvents == {"SIGNED_IN", "TOKEN_REFRESHED", "SIGNED_OUT", "INITIAL_SESSION"}

\* The auth client emits an event. SIGNED_OUT comes with no session; SIGNED_IN and
\* TOKEN_REFRESHED come with the current session. A handler that has to fetch the
\* user reads the backend and delivers its callback later.
AuthEventNull ==
  /\ \E ev \in AuthEvents :
       /\ ev \in {"SIGNED_IN", "TOKEN_REFRESHED"} => session # "none"
       /\ ev = "SIGNED_OUT" => session = "none"
       /\ onAuthStateChange(ev, session # "none" /\ ev # "SIGNED_OUT") = "null"
  /\ AuthCallback(NoUser)
  /\ UNCHANGED <<session, accounts, timer, verify, evq, login,
                 logoutPc, reg>>
  /\ UNCHANGED <<stale, nonAuthVars>>

AuthEventFetch ==
  /\ session # "none"
  /\ Cardinality(evq) < MaxPendingEvents
  /\ \E ev \in AuthEvents \ {"SIGNED_OUT"} :
       onAuthStateChange(ev, TRUE) = "fetch"
  /\ \E r \in CurrentUserResults :
       /\ evq' = evq \cup {r.user}
       /\ stale' = [stale EXCEPT !.events = @ \ {r.user}]
  /\ UNCHANGED <<session, accounts, user, loading, error, cache, timer, verify,
                 login, logoutPc, reg, path, from>>
  /\ UNCHANGED nonAuthVars

AuthEventDeliver ==
  /\ \E u \in evq :
       /\ evq' = evq \ {u}
       /\ stale' = [stale EXCEPT !.events = @ \ {u}]
       /\ AuthCallback(u)
  /\ UNCHANGED <<session, accounts, timer, verify, login, logoutPc, reg>>
  /\ UNCHANGED nonAuthVars

----------------------------------------------------------------------------
(* authService.login, stage by stage *)

\* After signInWithPassword answered o for the credentials of a: the response to
\* return at once, or ret = FALSE when the profile query is next.
loginSignIn(a, o) ==
  IF o = "throw"
  THEN [ret |-> TRUE, resp |-> LoginResponse(FALSE, NoUser, ErrRejected, FALSE, FALSE)]
  ELSE IF o = "error" \/ a \notin AllAccounts
  THEN [ret |-> TRUE, resp |-> LoginResponse(FALSE, NoUser, ErrBackend, FALSE, FALSE)]
  ELSE IF o = "empty"
  THEN [ret |-> TRUE, resp |-> LoginResponse(FALSE, NoUser, ErrNoUser, FALSE, FALSE)]
  ELSE [ret |-> FALSE, resp |-> NoLoginResult]

\* After the profile query answered o: the response to return at once, or
\* ret = FALSE when signOut is awaited first and resp.error is the error to return
\* after it.
loginProfile(a, o) ==
  IF o = "throw"
  THEN [ret |-> TRUE, resp |-> LoginResponse(FALSE, NoUser, ErrRejected, TRUE, FALSE)]
  ELSE IF o = "error"
  THEN [ret |-> FALSE, resp |-> LoginResponse(FALSE, NoUser, ErrProfile, TRUE, TRUE)]
  ELSE IF Profile(a).user_type # "admin"
  THEN [ret |-> FALSE, resp |-> LoginResponse(FALSE, NoUser, ErrDenied, TRUE, TRUE)]
  ELSE [ret |-> TRUE, resp |-> LoginResponse(TRUE, Profile(a), NoError, TRUE, FALSE)]

\* After the signOut of a rejected login answered o (its result is not looked at;
\* an exception goes to the catch).
loginSignOut(pending, o) ==
  IF o = "throw"
  THEN LoginResponse(FALSE, NoUser, ErrRejected, TRUE, TRUE)
  ELSE pending

\* The session the auth client holds after signOut answered o.
SessionAfterSignOut(s, o) == IF o = "ok" THEN "none" ELSE s

\* authService.login as a whole: the response and the session left behind, for
\* the credentials of a and the outcomes of signInWithPassword, the profile query
\* and signOut.
authLogin(a, o1, o2, o3) ==
  LET s1 == loginSignIn(a, o1)
      s2 == loginProfile(a, o2)
  IN IF s1.ret THEN [resp |-> s1.resp, session |-> "none"]
     ELSE IF s2.ret THEN [resp |-> s2.resp, session |-> a]
     ELSE [resp |-> loginSignOut(s2.resp, o3),
           session |-> SessionAfterSignOut(a, o3)]

----------------------------------------------------------------------------
(* login through the auth context *)

\* AuthProvider.login after authService.login returned r.
LoginReturn(r) ==
  /\ login' = NoLogin
  /\ IF r.error # NoError
     THEN /\ Render(path, from, user, FALSE, r.error)
          /\ cache' = cache
          /\ stale' = stale
     ELSE /\ Render(path, from, r.user, FALSE, NoError)
          /\ cache' = setCachedAuth(r.user)
          /\ stale' = NoStale

\* LoginPage.handleSubmit -> AuthProvider.login: the button is disabled while
\* loading or submitting.
LoginSubmit ==
  /\ path = LoginPath
  /\ ~loading
  /\ login.pc = "idle"
  /\ \E a \in Credentials :
       login' = [pc |-> "signIn", acct |-> a, pending |-> NoLoginResult]
  /\ Render(path, from, user, TRUE, NoError)
  /\ UNCHANGED <<session, accounts, cache, timer, verify, evq, logoutPc, reg>>
  /\ UNCHANGED <<stale, nonAuthVars>>

\* signInWithPassword answers.
LoginSignIn ==
  /\ login.pc = "signIn"
  /\ \E o \in Outcomes \cup {"empty"} :
       LET s1 == loginSignIn(login.acct, o) IN
         IF s1.ret
         THEN /\ LoginReturn(s1.resp)
              /\ session' = session
         ELSE /\ session' = login.acct
              /\ login' = [login EXCEPT !.pc = "profile"]
              /\ UNCHANGED <<user, loading, error, cache, stale, path, from>>
  /\ UNCHANGED <<accounts, timer, verify, evq, logoutPc, reg>>
  /\ UNCHANGED nonAuthVars

\* The profile query answers.
LoginProfile ==
  /\ login.pc = "profile"
  /\ \E o \in Outcomes :
       LET s2 == loginProfile(login.acct, o) IN
         IF s2.ret
         THEN LoginReturn(s2.resp)
         ELSE /\ login' = [login EXCEPT !.pc = "signOut", !.pending = s2.resp]
              /\ UNCHANGED <<user, loading, error, cache, stale, path, from>>
  /\ UNCHANGED <<session, accounts, timer, verify, evq, logoutPc, reg>>
  /\ UNCHANGED nonAuthVars

\* The signOut of a rejected login answers.
LoginSignOut ==
  /\ login.pc = "signOut"
  /\ \E o \in Outcomes :
       /\ session' = SessionAfterSignOut(session, o)
       /\ LoginReturn(loginSignOut(login.pending, o))
  /\ UNCHANGED <<accounts, timer, verify, evq, logoutPc, reg>>
  /\ UNCHANGED nonAuthVars

----------------------------------------------------------------------------
(* logout *)

\* Header -> MainLayout.handleLogout -> AuthProvider.logout (an admin page is shown).
LogoutStart ==
  /\ AdminPageRendered
  /\ logoutPc = "idle"
  /\ logoutPc' = "signOut"
  /\ Render(path, from, user, TRUE, NoError)
  /\ UNCHANGED <<session, accounts, cache, timer, verify, evq, login, reg>>
  /\ UNCHANGED <<stale, nonAuthVars>>

\* authService.logout answers (it catches its own exceptions), then the rest of
\* AuthProvider.logout runs.
LogoutReturn ==
  /\ logoutPc = "signOut"
  /\ logoutPc' = "idle"
  /\ \E o \in Outcomes :
       /\ session' = IF o = "ok" THEN "none" ELSE session
       /\ Render(path, from, NoUser, FALSE,
                 IF o = "ok" THEN NoError
                 ELSE IF o = "error" THEN ErrBackend ELSE ErrRejected)
  /\ cache' = NoCache
  /\ UNCHANGED <<accounts, timer, verify, evq, login, reg>>
  /\ stale' = [verify |-> /\ verify.kind # "none"
                          /\ verify.res.ready => verify.res.user # NoUser,
               events |-> evq \ {NoUser}]
  /\ UNCHANGED nonAuthVars

----------------------------------------------------------------------------
(* register *)

\* RegisterPage.handleSubmit -> AuthProvider.register -> authService.register.
\* /register is a public route; the page leaves when isAuthenticated.
RegisterSubmit ==
  /\ path = RegisterPath
  /\ ~loading
  /\ reg = "idle"
  /\ reg' = "signUp"
  /\ Render(path, from, user, TRUE, NoError)
  /\ UNCHANGED <<session, accounts, cache, timer, verify, evq, login,
                 logoutPc>>
  /\ UNCHANGED <<stale, nonAuthVars>>

\* authService.register: signUp answers.
RegisterSignUp ==
  /\ reg = "signUp"
  /\ \E o \in Outcomes :
       IF o = "ok" /\ "new" \notin accounts
       THEN /\ reg' = "insert"
            /\ UNCHANGED <<user, loading, error, path, from>>
       ELSE /\ reg' = "idle"
            /\ Render(path, from, user, FALSE,
                      IF o = "throw" THEN ErrRejected ELSE ErrBackend)
  /\ UNCHANGED <<session, accounts, cache, timer, verify, evq, login,
                 logoutPc>>
  /\ UNCHANGED <<stale, nonAuthVars>>

\* authService.register: the insert of the profile row (user_type from the form,
\* 'admin') answers.
RegisterInsert ==
  /\ reg = "insert"
  /\ reg' = "idle"
  /\ \E o \in Outcomes :
       IF o = "ok"
       THEN /\ accounts' = accounts \cup {"new"}
            /\ Render(path, from, user, FALSE, NoError)
       ELSE /\ accounts' = accounts
            /\ Render(path, from, user, FALSE,
                      IF o = "throw" THEN ErrRejected ELSE ErrBackend)
  /\ UNCHANGED <<session, cache, timer, verify, evq, login, logoutPc>>
  /\ UNCHANGED <<stale, nonAuthVars>>

----------------------------------------------------------------------------
(* environment and navigation *)

\* The session ends on the backend side (expiry, sign-out elsewhere).
SessionEnds ==
  /\ session # "none"
  /\ session' = "none"
  /\ UNCHANGED <<accounts, user, loading, error, cache, timer, verify, evq, login,
                 logoutPc, reg, path, from>>
  /\ UNCHANGED <<stale, nonAuthVars>>

\* Time passes until the cache entry is AUTH_CACHE_EXPIRY old (ages below the
\* expiry are alike to getCachedAuth, and so are the ages from it on).
Tick ==
  /\ cache.present
  /\ cache.age < AUTH_CACHE_EXPIRY
  /\ cache' = [cache EXCEPT !.age = AUTH_CACHE_EXPIRY]
  /\ UNCHANGED <<session, accounts, user, loading, error, timer, verify, evq, login,
                 logoutPc, reg, path, from>>
  /\ UNCHANGED <<stale, nonAuthVars>>

\* A sidebar link of MainLayout.
Navigate ==
  /\ AdminPageRendered
  /\ \E p \in ProtectedPaths \ {path} : path' = p
  /\ UNCHANGED <<session, accounts, user, loading, error, cache, timer, verify, evq,
                 login, logoutPc, reg, from>>
  /\ UNCHANGED <<stale, nonAuthVars>>

\* RegisterPage.handleBackToLogin: navigate('/login'), without location state.
\* (The links between the two forms are plain hrefs: a page load, see Visit.)
handleBackToLogin ==
  /\ path = RegisterPath
  /\ path' = LoginPath
  /\ from' = "none"
  /\ UNCHANGED <<session, accounts, user, loading, error, cache, timer, verify, evq,
                 login, logoutPc, reg>>
  /\ UNCHANGED <<stale, nonAuthVars>>

----------------------------------------------------------------------------
(* Specification of the auth subsystem *)

AuthInit ==
  /\ session = "none"
  /\ accounts = {"adm", "cus"}
  /\ cache = NoCache
  /\ user = NoUser
  /\ loading = TRUE
  /\ error = NoError
  /\ timer = "armed"
  /\ verify = [kind |-> "fg", res |-> NoRes]
  /\ evq = {}
  /\ login = NoLogin
  /\ logoutPc = "idle"
  /\ reg = "idle"
  /\ stale = NoStale
  /\ path \in Paths
  /\ from = "none"

AuthNext ==
  \/ Visit
  \/ VerifyAnswer
  \/ VerifyAuth
  \/ VerifyAuthInBackground
  \/ FallbackTimeout
  \/ AuthEventNull
  \/ AuthEventFetch
  \/ AuthEventDeliver
  \/ LoginSubmit
  \/ LoginSignIn
  \/ LoginProfile
  \/ LoginSignOut
  \/ LogoutStart
  \/ LogoutReturn
  \/ RegisterSubmit
  \/ RegisterSignUp
  \/ RegisterInsert
  \/ SessionEnds
  \/ Tick
  \/ Navigate
  \/ handleBackToLogin

----------------------------------------------------------------------------
(* Legal-page service (legalPageService.ts) *)

\* Concurrent admin sessions, and the rows legal_pages may come to hold.
NumSessions == 2
MaxPages == 3

Sessions == 1..NumSessions
Slugs == {"terms", "privacy"}

\* input.slug of an update that does not change the slug (undefined: falsy).
NoSlug == ""

ErrSlugExists == "A legal page with this slug already exists"

NoLegalCall == [op |-> "idle", pc |-> "idle", id |-> 0, slug |-> NoSlug]

\* What the store may do with a query.
StoreOutcomes == IF faults THEN Outcomes ELSE {"ok"}

\* `const { data: existing } = await query.single()`: the row when the query
\* answered and matched exactly one row; null when it matched none or several
\* (single() reports that as an error) or reported any other error. The error is
\* not looked at.
SingleData(matched, o) ==
  IF o = "ok" /\ Cardinality(matched) = 1 THEN matched ELSE {}

\* The rows the uniqueness query of createLegalPage / updateLegalPage selects.
SlugHolders(c) ==
  IF c.op = "create"
  THEN {p \in pages : p.slug = c.slug}
  ELSE {p \in pages : p.slug = c.slug /\ p.id # c.id}

\* The uniqueness check after its query answered o: "reject" (existing found),
\* "throw" (exception, to the catch) or "write" (go on to the insert/update).
slugCheck(c, o) ==
  IF o = "throw" THEN "throw"
  ELSE IF SingleData(SlugHolders(c), o) # {} THEN "reject"
  ELSE "write"

\* legal_pages after .update(updateData).eq('id', id): input fields are spread
\* into the row, the slug only when input.slug is given.
UpdatedPages(c) ==
  {IF p.id = c.id /\ c.slug # NoSlug THEN [p EXCEPT !.slug = c.slug] ELSE p : p \in pages}

LegalReturn(s, r) ==
  /\ lcall' = [lcall EXCEPT ![s] = NoLegalCall]
  /\ lret' = [lret EXCEPT ![s] = r]

\* createLegalPage(input) is called in session s.
CreateLegalPage ==
  /\ \E s \in Sessions, sl \in Slugs :
       /\ lcall[s].op = "idle"
       /\ lcall' = [lcall EXCEPT ![s] = [op |-> "create", pc |-> "check", id |-> 0,
                                         slug |-> sl]]
       /\ lret' = [lret EXCEPT ![s] = "none"]
  /\ UNCHANGED <<pages, nextId, faults, nonLegalVars>>

\* updateLegalPage(id, input) is called in session s; without input.slug the
\* uniqueness check is skipped.
UpdateLegalPage ==
  /\ \E s \in Sessions, p \in pages, sl \in Slugs \cup {NoSlug} :
       /\ lcall[s].op = "idle"
       /\ lcall' = [lcall EXCEPT ![s] =
                      [op |-> "update", pc |-> IF sl = NoSlug THEN "write" ELSE "check",
                       id |-> p.id, slug |-> sl]]
       /\ lret' = [lret EXCEPT ![s] = "none"]
  /\ UNCHANGED <<pages, nextId, faults, nonLegalVars>>

\* The uniqueness query of a call answers.
SlugCheckAnswer ==
  /\ \E s \in Sessions, o \in StoreOutcomes :
       /\ lcall[s].pc = "check"
       /\ LET next == slugCheck(lcall[s], o) IN
            IF next = "reject" THEN LegalReturn(s, ErrSlugExists)
            ELSE IF next = "throw" THEN LegalReturn(s, ErrRejected)
            ELSE /\ lcall' = [lcall EXCEPT ![s].pc = "write"]
                 /\ lret' = lret
  /\ UNCHANGED <<pages, nextId, faults, nonLegalVars>>

\* The insert of createLegalPage answers.
InsertAnswer ==
  /\ \E s \in Sessions, o \in StoreOutcomes :
       /\ lcall[s].op = "create"
       /\ lcall[s].pc = "write"
       /\ o = "ok" => nextId <= MaxPages
       /\ IF o = "ok"
          THEN /\ pages' = pages \cup {[id |-> nextId, slug |-> lcall[s].slug]}
               /\ nextId' = nextId + 1
               /\ LegalReturn(s, "ok")
          ELSE /\ UNCHANGED <<pages, nextId>>
               /\ LegalReturn(s, IF o = "throw" THEN ErrRejected ELSE ErrBackend)
  /\ UNCHANGED <<faults, nonLegalVars>>

\* The update of updateLegalPage answers; .single() reports an error when the
\* row is gone.
UpdateAnswer ==
  /\ \E s \in Sessions, o \in StoreOutcomes :
       /\ lcall[s].op = "update"
       /\ lcall[s].pc = "write"
       /\ IF o = "ok" /\ \E p \in pages : p.id = lcall[s].id
          THEN /\ pages' = UpdatedPages(lcall[s])
               /\ LegalReturn(s, "ok")
          ELSE /\ pages' = pages
               /\ LegalReturn(s, IF o = "throw" THEN ErrRejected ELSE ErrBackend)
  /\ UNCHANGED <<nextId, faults, nonLegalVars>>

\* deleteLegalPage(id) succeeds.
DeleteLegalPage ==
  /\ \E p \in pages : pages' = pages \ {p}
  /\ UNCHANGED <<nextId, lcall, lret, faults, nonLegalVars>>

LegalIdle ==
  /\ pages = {}
  /\ nextId = 1
  /\ lcall = [s \in Sessions |-> NoLegalCall]
  /\ lret = [s \in Sessions |-> "none"]
  /\ faults = FALSE

----------------------------------------------------------------------------
(* Status updates of businesses, services and companies *)

\* Largest value of the clock; timestamps are 0..MaxClock, 0 being "before the
\* first request" (and the null of approved_at).
MaxClock == 2

Entities == {"business", "service", "company"}

\* The rows of the table, and an id no row has.
RowIds == {"r1", "r2"}
AbsentId == "r0"

BusinessStatus == {"pending", "active", "rejected", "suspended", "removed", "deleted"}
ServiceStatus  == {"pending", "active", "rejected", "suspended", "deleted",
                   "requestDeletion"}
CompanyStatus  == {"pending", "approved", "rejected", "suspended"}

StatusOf(e) ==
  IF e = "business" THEN BusinessStatus
  ELSE IF e = "service" THEN ServiceStatus
  ELSE CompanyStatus

\* The rows a table can hold before the first status update: status, updated_at
\* and the fields derived from the status, plus name, which stands for every
\* column no status update mentions.
InitialRows(e) ==
  IF e = "business"
  THEN {[status |-> "pending", updated_at |-> 0, name |-> "n"]}
  ELSE IF e = "service"
  THEN {[status |-> "pending", updated_at |-> 0, name |-> "n", is_active |-> a] :
          a \in BOOLEAN}
  ELSE {[status |-> "pending", updated_at |-> 0, name |-> "n",
         is_verified |-> FALSE, approved_at |-> 0]}

\* The object given to .update() by each function.

\* An update of a service that writes status and updated_at only.
serviceUpdateData_StatusOnly(status) == [status |-> status, updated_at |-> now]
businessUpdateData(status) == [status |-> status, updated_at |-> now]

serviceUpdateData(status) ==
  LET updateData == [status |-> status, updated_at |-> now] IN
    IF status = "active" THEN [is_active |-> TRUE] @@ updateData
    ELSE IF status \in {"suspended", "rejected", "deleted"}
    THEN [is_active |-> FALSE] @@ updateData
    ELSE updateData

companyUpdateData(status) ==
  LET updateData == [status |-> status, updated_at |-> now]
      approving  == IF status = "approved"
                    THEN [approved_at |-> now, is_verified |-> TRUE] @@ updateData
                    ELSE updateData
  IN IF status \in {"rejected", "suspended"}
     THEN [is_verified |-> FALSE] @@ approving
     ELSE approving

\* .update(data) with no .eq('id', id) filter: every row is written.
TableUpdate_NoFilter(table, id, data) ==
  [i \in DOMAIN table |-> data @@ table[i]]

\* .from(table).update(data).eq('id', id): the columns of data are written in the
\* row whose id matches; no row matches an absent id.
TableUpdate(table, id, data) ==
  [i \in DOMAIN table |-> IF i = id THEN data @@ table[i] ELSE table[i]]

\* One status-update call, from the request to the store's answer o.
StatusUpdate(e, id, status, data, o) ==
  /\ entity = e
  /\ scall' = [id |-> id, status |-> status]
  /\ rows' = IF o = "ok" THEN TableUpdate(rows, id, data) ELSE rows
  /\ UNCHANGED <<entity, now, nonStatusVars>>

updateBusinessStatus ==
  \E id \in RowIds \cup {AbsentId}, status \in BusinessStatus, o \in Outcomes :
    StatusUpdate("business", id, status, businessUpdateData(status), o)

updateServiceStatus ==
  \E id \in RowIds \cup {AbsentId}, status \in ServiceStatus, o \in Outcomes :
    StatusUpdate("service", id, status, serviceUpdateData(status), o)

updateCompanyStatus ==
  \E id \in RowIds \cup {AbsentId}, status \in CompanyStatus, o \in Outcomes :
    StatusUpdate("company", id, status, companyUpdateData(status), o)

\* Time passes between two requests.
ClockTick ==
  /\ now < MaxClock
  /\ now' = now + 1
  /\ UNCHANGED <<entity, rows, scall, nonStatusVars>>

NoStatusCall == [id |-> "none", status |-> "none"]

StatusIdle ==
  /\ entity = "business"
  /\ rows = [i \in RowIds |-> [status |-> "pending", updated_at |-> 0, name |-> "n"]]
  /\ now = 1
  /\ scall = NoStatusCall

----------------------------------------------------------------------------
(* retryOperation (errorHandling utilities) *)

\* Largest maxRetries and delay a call is made with.
MaxMaxRetries == 3
MaxDelay == 2

\* What one invocation of operation() settles to: a value, a rejection with an
\* Error instance, or a rejection with something that is no Error. n tells the
\* invocations apart.
OpValue(n)    == [ok |-> TRUE,  isError |-> FALSE, n |-> n]
OpError(n)    == [ok |-> FALSE, isError |-> TRUE,  n |-> n]
OpNonError(n) == [ok |-> FALSE, isError |-> FALSE, n |-> n]

\* Nothing settled or caught yet.
NoOutcome == [ok |-> FALSE, isError |-> FALSE, n |-> 0]

\* new Error('Unknown error')
UnknownError == [ok |-> FALSE, isError |-> TRUE, n |-> 0]

\* `attempt === maxRetries - 1`: gives up one attempt early.
isFinalAttempt_OneEarly(attempt, maxRetries) == attempt = maxRetries - 1

\* `if (attempt === maxRetries) throw lastError`
isFinalAttempt(attempt, maxRetries) == attempt = maxRetries

\* `lastError = error instanceof Error ? error : new Error('Unknown error')`
lastErrorOf(e) == IF e.isError THEN e ELSE UnknownError

\* `delay * (attempt + 1)`: a backoff that grows linearly.
waitTime_Linear(delay, attempt, backoff) ==
  IF backoff THEN delay * (attempt + 1) ELSE delay

\* `backoff ? delay * Math.pow(2, attempt) : delay`
waitTime(delay, attempt, backoff) ==
  IF backoff THEN delay * 2^attempt ELSE delay

\* The call retryOperation(operation, maxRetries, delay, backoff) up to its first
\* await: attempt 0, operation() invoked once.
RetryCalls ==
  [maxRetries : 0..MaxMaxRetries, delay : 0..MaxDelay, backoff : BOOLEAN,
   pc : {"await"}, attempt : {0}, invoked : {1}, outs : {<<>>}, waits : {<<>>},
   result : {NoOutcome}]

\* The pending invocation resolves: `return await operation()`.
OpResolves ==
  /\ retry.pc = "await"
  /\ retry' = [retry EXCEPT !.pc = "resolved",
                            !.outs = Append(@, OpValue(retry.invoked)),
                            !.result = OpValue(retry.invoked)]
  /\ UNCHANGED nonRetryVars

\* The pending invocation rejects with e: the catch block, up to the throw or to
\* the setTimeout of the wait.
Catch(e) ==
  LET lastError == lastErrorOf(e) IN
    IF isFinalAttempt(retry.attempt, retry.maxRetries)
    THEN retry' = [retry EXCEPT !.pc = "rejected", !.outs = Append(@, e),
                                !.result = lastError]
    ELSE retry' = [retry EXCEPT !.pc = "wait", !.outs = Append(@, e),
                                !.result = lastError,
                                !.waits = Append(@, waitTime(retry.delay, retry.attempt,
                                                             retry.backoff))]

OpRejects ==
  /\ retry.pc = "await"
  /\ \E e \in {OpError(retry.invoked), OpNonError(retry.invoked)} : Catch(e)
  /\ UNCHANGED nonRetryVars

\* The wait is over: attempt++, and while attempt <= maxRetries operation() is
\* invoked again; past the loop, `throw lastError!`.
WaitElapses ==
  /\ retry.pc = "wait"
  /\ IF retry.attempt + 1 <= retry.maxRetries
     THEN retry' = [retry EXCEPT !.pc = "await", !.attempt = @ + 1, !.invoked = @ + 1]
     ELSE retry' = [retry EXCEPT !.pc = "rejected", !.attempt = @ + 1]
  /\ UNCHANGED nonRetryVars

RetryIdle ==
  retry = [maxRetries |-> 0, delay |-> 0, backoff |-> FALSE, pc |-> "idle",
           attempt |-> 0, invoked |-> 0, outs |-> <<>>, waits |-> <<>>,
           result |-> NoOutcome]

----------------------------------------------------------------------------
(* The entity list hooks: useUsers, useCompanies, useBusinesses, useServices *)
(* and useTransactions share one logic; the model is of that logic.        *)

\* `const DEFAULT_PAGE_SIZE = 10`.
DEFAULT_PAGE_SIZE == 10

\* The list requests and the mutations one mounted hook sends in a run.
MaxFetches == 3
MaxMutations == 2

\* The rows of the table, by id; created_at grows with the id.
HookIds == 1..4

\* The status values of the rows, and the absence of a row.
HookStatuses == {"active", "suspended"}
NoRow == "no row"

InitialTable == [i \in HookIds |-> IF i = 2 THEN "suspended" ELSE "active"]

\* The tables a hook with mutations is started on.
HookTables == {InitialTable, [i \in HookIds |-> "active"]}

\* The arguments the pages hand to the setters.
NoFilters == [status |-> "any"]
HookFilters == {NoFilters, [status |-> "active"]}
HookPages == {1, 2}
HookPageSizes == {2, DEFAULT_PAGE_SIZE}
HookSortBys == {"created_at", "name"}
HookSortOrders == {"asc", "desc"}

NoHookError == "none"
ErrFetch == "fetch failed"
ErrUpdate == "update failed"
ErrDelete == "delete failed"

\* The useState initial values.
InitialHook ==
  [rows |-> <<>>, loading |-> TRUE, error |-> NoHookError,
   page |-> 1, pageSize |-> DEFAULT_PAGE_SIZE, total |-> 0, totalPages |-> 0,
   filters |-> NoFilters, sortBy |-> "created_at", sortOrder |-> "desc"]

\* `const params = { ...filters, page: pagination.page, pageSize:
\* pagination.pageSize, sortBy, sortOrder }`.
ParamsOf(h) ==
  [filters |-> h.filters, page |-> h.page, pageSize |-> h.pageSize,
   sortBy |-> h.sortBy, sortOrder |-> h.sortOrder]

NoHookRet == [fn |-> "none", id |-> 0, value |-> FALSE, done |-> 0]

\* A call of a function of the hook with its argument.
Op(fn, arg) == [fn |-> fn, arg |-> arg]

\* The hook before it is mounted.
HookIdle ==
  /\ hook = InitialHook
  /\ btable = InitialTable
  /\ inflight = <<>>
  /\ mcalls = <<>>
  /\ hret = NoHookRet
  /\ hlog = [fetches |-> 0, mutations |-> 0, last |-> "none", op |-> Op("none", 0)]

-----------------------------------------------------------------------------
(* getUserStats (user service) *)

\* Number of ids a users row can have.
MaxUsers == 2

UserIds == 1..MaxUsers

UserTypes == {"customer", "provider", "admin"}

\* The place of an id with no row, and the rows an id can have.
NoUserRow == [present |-> FALSE, is_active |-> FALSE, user_type |-> "customer"]

UserRows ==
  {NoUserRow} \cup [present : {TRUE}, is_active : BOOLEAN, user_type : UserTypes]

\* The five count queries of getUserStats, in the order they are awaited.
UserStatsQueries == <<"total", "active", "customers", "providers", "admins">>

\* select('*', {count: 'exact', head: true}) with the filter of query q, on the
\* table as it is when the query runs.
QueryCount(t, q) ==
  Cardinality({i \in UserIds :
    /\ t[i].present
    /\ q = "active" => t[i].is_active
    /\ q = "customers" => t[i].user_type = "customer"
    /\ q = "providers" => t[i].user_type = "provider"
    /\ q = "admins" => t[i].user_type = "admin"})

NoCounts == [q \in {"total", "active", "customers", "providers", "admins"} |-> 0]

\* { stats: null, error }.
NoStats ==
  [ok |-> FALSE, total |-> 0, active |-> 0, inactive |-> 0, customers |-> 0,
   providers |-> 0, admins |-> 0]

\* The stats object of the final return.
UserStats(c) ==
  [ok |-> TRUE, total |-> c["total"], active |-> c["active"],
   inactive |-> c["total"] - c["active"], customers |-> c["customers"],
   providers |-> c["providers"], admins |-> c["admins"]]

\* pc: 0 before the first call, n in 1..5 while query n is awaited, 6 once the
\* call has returned.
StatsReturned == Len(UserStatsQueries) + 1

StatsIdle ==
  /\ utable = [i \in UserIds |-> NoUserRow]
  /\ ustats = [pc |-> 0, counts |-> NoCounts, stats |-> NoStats]

\* getUserStats is called: the first query is sent.
getUserStats ==
  /\ ustats.pc \in {0, StatsReturned}
  /\ ustats' = [pc |-> 1, counts |-> NoCounts, stats |-> NoStats]
  /\ UNCHANGED <<utable, nonStatsVars>>

\* The awaited query is answered: an error (or a throw) returns stats null, a
\* count is kept and the next query is sent, and after the last one the stats
\* are returned.
StatsQueryAnswer ==
  /\ ustats.pc \in 1..Len(UserStatsQueries)
  /\ \E o \in Outcomes :
       LET q == UserStatsQueries[ustats.pc]
           c == [ustats.counts EXCEPT ![q] = QueryCount(utable, q)]
       IN ustats' =
            IF o # "ok"
            THEN [pc |-> StatsReturned, counts |-> NoCounts, stats |-> NoStats]
            ELSE IF ustats.pc = Len(UserStatsQueries)
            THEN [pc |-> StatsReturned, counts |-> NoCounts, stats |-> UserStats(c)]
            ELSE [pc |-> ustats.pc + 1, counts |-> c, stats |-> NoStats]
  /\ UNCHANGED <<utable, nonStatsVars>>

\* Another session signs a user up.
insertUser ==
  /\ \E i \in UserIds, r \in UserRows \ {NoUserRow} :
       /\ ~utable[i].present
       /\ utable' = [utable EXCEPT ![i] = r]
  /\ UNCHANGED <<ustats, nonStatsVars>>

\* Another session's deleteUser(id).
deleteUser ==
  /\ \E i \in UserIds :
       /\ utable[i].present
       /\ utable' = [utable EXCEPT ![i] = NoUserRow]
  /\ UNCHANGED <<ustats, nonStatsVars>>

\* Another session's updateUserStatus(id, isActive).
updateUserStatus ==
  /\ \E i \in UserIds, isActive \in BOOLEAN :
       /\ utable[i].present
       /\ utable' = [utable EXCEPT ![i].is_active = isActive]
  /\ UNCHANGED <<ustats, nonStatsVars>>

-----------------------------------------------------------------------------
(* usePagination *)

DEFAULT_PAGE == 1

\* The hook as first rendered with options initialPageSize and total
\* (initialPage defaulted).
InitialPagination(initialPageSize, initialTotal) ==
  [page |-> DEFAULT_PAGE, pageSize |-> initialPageSize, total |-> initialTotal,
   initialPage |-> DEFAULT_PAGE, initialPageSize |-> initialPageSize,
   op |-> "none"]

PaginationIdle == pg = InitialPagination(DEFAULT_PAGE_SIZE, 0)

\* Idle values of the variables a specification does not use.
AuthIdle ==
  /\ session = "none"
  /\ accounts = {"adm", "cus"}
  /\ cache = NoCache
  /\ user = NoUser
  /\ loading = TRUE
  /\ error = NoError
  /\ timer = "armed"
  /\ verify = [kind |-> "fg", res |-> NoRes]
  /\ evq = {}
  /\ login = NoLogin
  /\ logoutPc = "idle"
  /\ reg = "idle"
  /\ stale = NoStale
  /\ path = "/"
  /\ from = "none"

NoCall == [fn |-> "none"]
NoRet  == [fn |-> "none"]

FnIdle ==
  /\ call = NoCall
  /\ ret = NoRet

----------------------------------------------------------------------------
(* Specifications *)

Init ==
  /\ AuthInit
  /\ FnIdle
  /\ LegalIdle
  /\ StatusIdle
  /\ RetryIdle
  /\ HookIdle
  /\ StatsIdle
  /\ PaginationIdle

Next == AuthNext

Spec == Init /\ [][Next]_vars

\* The steps the code itself schedules: the getCurrentUser call of the initial
\* verification resolves (every backend call in it is under withTimeout), its
\* continuation runs, the fallback timer fires, a fetched auth event is delivered.
\* A backend call of login, logout or register has no timeout and need not answer.
FairSpec ==
  /\ Spec
  /\ WF_vars(VerifyAnswer)
  /\ WF_vars(VerifyAuth)
  /\ WF_vars(VerifyAuthInBackground)
  /\ WF_vars(FallbackTimeout)
  /\ WF_vars(AuthEventDeliver)

\* An empty legal_pages table (slugs trivially distinct), no call in flight.
LegalStart ==
  /\ pages = {}
  /\ nextId = 1
  /\ lcall = [s \in Sessions |-> NoLegalCall]
  /\ lret = [s \in Sessions |-> "none"]
  /\ AuthIdle
  /\ FnIdle
  /\ StatusIdle
  /\ RetryIdle
  /\ HookIdle

\* The store answers every query (no error, no exception).
LegalInit ==
  /\ LegalStart
  /\ faults = FALSE
  /\ StatsIdle
  /\ PaginationIdle

\* The store may also fail a query.
LegalFaultsInit ==
  /\ LegalStart
  /\ faults = TRUE
  /\ StatsIdle
  /\ PaginationIdle

LegalNext ==
  \/ CreateLegalPage
  \/ UpdateLegalPage
  \/ SlugCheckAnswer
  \/ InsertAnswer
  \/ UpdateAnswer
  \/ DeleteLegalPage

SpecLegal == LegalInit /\ [][LegalNext]_vars

SpecLegalFaults == LegalFaultsInit /\ [][LegalNext]_vars

----------------------------------------------------------------------------
(* authService.login as a function of its inputs *)

LoginInit ==
  /\ call \in [fn : {"login"}, a : Credentials, o1 : Outcomes \cup {"empty"},
               o2 : Outcomes, o3 : Outcomes]
  /\ ret = NoRet
  /\ AuthIdle
  /\ LegalIdle
  /\ StatusIdle
  /\ RetryIdle
  /\ HookIdle
  /\ StatsIdle
  /\ PaginationIdle

LoginCall ==
  /\ call.fn = "login"
  /\ ret = NoRet
  /\ ret' = [fn |-> "login"] @@ authLogin(call.a, call.o1, call.o2, call.o3)
  /\ UNCHANGED <<call, nonFnVars>>

SpecLogin == LoginInit /\ [][LoginCall]_vars

----------------------------------------------------------------------------
(* The status updates of one table *)

StatusInit ==
  /\ entity \in Entities
  /\ rows \in [RowIds -> InitialRows(entity)]
  /\ now = 1
  /\ scall = NoStatusCall
  /\ AuthIdle
  /\ FnIdle
  /\ LegalIdle
  /\ RetryIdle
  /\ HookIdle
  /\ StatsIdle
  /\ PaginationIdle

StatusNext ==
  \/ updateBusinessStatus
  \/ updateServiceStatus
  \/ updateCompanyStatus
  \/ ClockTick

SpecStatus == StatusInit /\ [][StatusNext]_vars

-----------------------------------------------------------------------------
(* Status changes requested from the entity cards *)

\* A card that also lets a rejected entity be set back to pending.
CardActions_Reset(e, status) ==
  IF status = "pending"
  THEN {IF e = "company" THEN "approved" ELSE "active", "rejected"}
  ELSE IF status \in {"active", "approved"} THEN {"suspended"}
  ELSE IF status = "rejected"
  THEN {IF e = "company" THEN "approved" ELSE "active", "pending"}
  ELSE IF status = "suspended"
  THEN {IF e = "company" THEN "approved" ELSE "active"}
  ELSE {}

\* getStatusActions() followed by handleAction() of BusinessCard, ServiceCard and
\* CompanyCard: the statuses the card of an entity shown with the given status
\* passes to onStatusChange. The company card's keys approve, reject and suspend
\* are mapped to approved, rejected and suspended; the delete actions call
\* onDelete and request no status.
CardActions(e, status) ==
  IF e = "business"
  THEN IF status = "pending" THEN {"active", "rejected"}
       ELSE IF status = "active" THEN {"suspended"}
       ELSE IF status \in {"suspended", "rejected"} THEN {"active"}
       ELSE {}
  ELSE IF e = "service"
  THEN IF status = "pending" THEN {"active", "rejected"}
       ELSE IF status = "active" THEN {"suspended"}
       ELSE IF status \in {"suspended", "rejected"} THEN {"active"}
       ELSE IF status = "requestDeletion" THEN {"active"}
       ELSE {}
  ELSE IF status = "pending" THEN {"approved", "rejected"}
       ELSE IF status = "approved" THEN {"suspended"}
       ELSE IF status \in {"suspended", "rejected"} THEN {"approved"}
       ELSE {}

\* The rows a table can hold when the page is opened: any status of the entity,
\* with any value of the columns derived from it.
StoredRows(e) ==
  IF e = "business"
  THEN {[status |-> s, updated_at |-> 0, name |-> "n"] : s \in BusinessStatus}
  ELSE IF e = "service"
  THEN {[status |-> s, updated_at |-> 0, name |-> "n", is_active |-> a] :
          s \in ServiceStatus, a \in BOOLEAN}
  ELSE {[status |-> s, updated_at |-> 0, name |-> "n",
         is_verified |-> v, approved_at |-> 0] :
          s \in CompanyStatus, v \in BOOLEAN}

\* handleStatusChange of the page, called by the card of row id with one of the
\* statuses the card offers: updateStatus(id, status) of the hook, which calls
\* the entity's status update.
businessCardStatusChange ==
  \E id \in RowIds, o \in Outcomes :
    \E status \in CardActions("business", rows[id].status) :
      StatusUpdate("business", id, status, businessUpdateData(status), o)

serviceCardStatusChange ==
  \E id \in RowIds, o \in Outcomes :
    \E status \in CardActions("service", rows[id].status) :
      StatusUpdate("service", id, status, serviceUpdateData(status), o)

companyCardStatusChange ==
  \E id \in RowIds, o \in Outcomes :
    \E status \in CardActions("company", rows[id].status) :
      StatusUpdate("company", id, status, companyUpdateData(status), o)

CardsInit ==
  /\ entity \in Entities
  /\ rows \in [RowIds -> StoredRows(entity)]
  /\ now = 1
  /\ scall = NoStatusCall
  /\ AuthIdle
  /\ FnIdle
  /\ LegalIdle
  /\ RetryIdle
  /\ HookIdle
  /\ StatsIdle
  /\ PaginationIdle

CardsNext ==
  \/ businessCardStatusChange
  \/ serviceCardStatusChange
  \/ companyCardStatusChange
  \/ ClockTick

SpecCards == CardsInit /\ [][CardsNext]_vars

----------------------------------------------------------------------------
(* The result shape of the data-access functions *)

\* The functions by the shape of their body. Each of the first four groups makes
\* one query inside try/catch; a stats function makes several in a row.
ListFns   == {"getBusinesses", "getUsers", "getServices", "getCompanies",
              "getTransactions", "getLegalPages"}
GetFns    == {"getBusinessById", "getUserById", "getServiceById", "getCompanyById",
              "getTransactionById", "getLegalPageById", "getLegalPageBySlug"}
StatusFns == {"updateBusinessStatus", "updateUserStatus", "updateServiceStatus",
              "updateCompanyStatus"}
DeleteFns == {"deleteBusiness", "deleteUser", "deleteService", "deleteCompany",
              "deleteLegalPage"}
StatsFns  == {"getBusinessStats", "getUserStats", "getServiceStats",
              "getCompanyStats", "getTransactionStats"}

\* How many queries a stats function awaits one after the other.
StatsQueries(name) ==
  IF name \in {"getServiceStats", "getTransactionStats"} THEN 6 ELSE 5

\* What the slug-uniqueness query of createLegalPage / updateLegalPage can
\* answer: a row, no row, an error of the store, or it throws.
CheckOutcomes == {"found", "none", "error", "throw"}

\* A result: payload is "value", "null" or, for a delete function (whose result
\* has no payload field), "absent"; failed records that a query of the call
\* reported an error or threw.
AccessResult(payload, e, failed) ==
  [payload |-> payload, error |-> e, failed |-> failed]

\* `const { data, error } = await query; if (error) return {null, error};
\* return {data, null}` inside `try { } catch (err) { return {null, message} }`.
QueryResult(o) ==
  IF o = "ok" THEN AccessResult("value", NoError, FALSE)
  ELSE IF o = "error" THEN AccessResult("null", ErrBackend, TRUE)
  ELSE AccessResult("null", ErrRejected, TRUE)

\* The same for a delete function: { error } only.
DeleteResult(o) == [QueryResult(o) EXCEPT !.payload = "absent"]

\* A stats function: the first query that fails decides, later ones are not made.
RECURSIVE StatsResult(_)
StatsResult(os) ==
  IF os = <<>> THEN AccessResult("value", NoError, FALSE)
  ELSE IF Head(os) # "ok" THEN QueryResult(Head(os))
  ELSE StatsResult(Tail(os))

\* createLegalPage: the uniqueness query, whose error is not read, then the insert.
createLegalPage(c, o) ==
  IF c = "throw" THEN AccessResult("null", ErrRejected, TRUE)
  ELSE IF c = "found" THEN AccessResult("null", ErrSlugExists, FALSE)
  ELSE [QueryResult(o) EXCEPT !.failed = @ \/ c = "error"]

\* updateLegalPage: the same check when input.slug is given (c = "skipped" when
\* it is not), then the update.
updateLegalPage(c, o) ==
  IF c = "skipped" THEN QueryResult(o) ELSE createLegalPage(c, o)

\* The calls: the function and the outcome of each query it may make.
AccessCalls ==
  {[fn |-> "access", name |-> n, os |-> <<o>>] :
     n \in ListFns \cup GetFns \cup StatusFns \cup DeleteFns, o \in Outcomes}
  \cup UNION {{[fn |-> "access", name |-> n, os |-> os] :
                 os \in [1..StatsQueries(n) -> Outcomes]} : n \in StatsFns}
  \cup {[fn |-> "access", name |-> "createLegalPage", os |-> <<c, o>>] :
          c \in CheckOutcomes, o \in Outcomes}
  \cup {[fn |-> "access", name |-> "updateLegalPage", os |-> <<c, o>>] :
          c \in CheckOutcomes \cup {"skipped"}, o \in Outcomes}

AccessReturn(c) ==
  IF c.name \in DeleteFns THEN DeleteResult(c.os[1])
  ELSE IF c.name \in StatsFns THEN StatsResult(c.os)
  ELSE IF c.name = "createLegalPage" THEN createLegalPage(c.os[1], c.os[2])
  ELSE IF c.name = "updateLegalPage" THEN updateLegalPage(c.os[1], c.os[2])
  ELSE QueryResult(c.os[1])

AccessInit ==
  /\ call \in AccessCalls
  /\ ret = NoRet
  /\ AuthIdle
  /\ LegalIdle
  /\ StatusIdle
  /\ RetryIdle
  /\ HookIdle
  /\ StatsIdle
  /\ PaginationIdle

AccessCall ==
  /\ call.fn = "access"
  /\ ret = NoRet
  /\ ret' = [fn |-> "access"] @@ AccessReturn(call)
  /\ UNCHANGED <<call, nonFnVars>>

SpecAccess == AccessInit /\ [][AccessCall]_vars

----------------------------------------------------------------------------
(* Pagination of the list functions *)

\* Largest page, page size and row count of a list request.
MaxPage == 4
MaxPageSize == 4
MaxTotal == 9

\* The list functions that take page and pageSize (getLegalPages takes neither).
PagedListFns == ListFns \ {"getLegalPages"}

\* `const offset = page * pageSize`: pages counted from 0 where the caller counts
\* them from 1.
listOffset_ZeroBased(page, pageSize) == page * pageSize

\* `const offset = (page - 1) * pageSize`.
listOffset(page, pageSize) == (page - 1) * pageSize

\* `query.range(offset, offset + pageSize - 1)`: first and last row index, both
\* included.
listRange(page, pageSize) ==
  [from |-> listOffset(page, pageSize),
   to   |-> listOffset(page, pageSize) + pageSize - 1]

\* `Math.ceil(total / pageSize)` for a row count and a positive page size.
totalPages(total, pageSize) ==
  IF total % pageSize = 0 THEN total \div pageSize ELSE total \div pageSize + 1

\* The row indexes a range asks for.
RangeRows(r) == r.from .. r.to

ListCalls ==
  [fn : {"list"}, name : PagedListFns, page : 1..MaxPage,
   pageSize : 1..MaxPageSize, total : 0..MaxTotal]

\* What a successful list call asked the store for and what it returns.
ListReturn(c) ==
  [range |-> listRange(c.page, c.pageSize), total |-> c.total, page |-> c.page,
   pageSize |-> c.pageSize, totalPages |-> totalPages(c.total, c.pageSize)]

PageInit ==
  /\ call \in ListCalls
  /\ ret = NoRet
  /\ AuthIdle
  /\ LegalIdle
  /\ StatusIdle
  /\ RetryIdle
  /\ HookIdle
  /\ StatsIdle
  /\ PaginationIdle

ListCall ==
  /\ call.fn = "list"
  /\ ret = NoRet
  /\ ret' = [fn |-> "list"] @@ ListReturn(call)
  /\ UNCHANGED <<call, nonFnVars>>

SpecPage == PageInit /\ [][ListCall]_vars

----------------------------------------------------------------------------
(* One retryOperation call *)

RetryInit ==
  /\ retry \in RetryCalls
  /\ AuthIdle
  /\ FnIdle
  /\ LegalIdle
  /\ StatusIdle
  /\ HookIdle
  /\ StatsIdle
  /\ PaginationIdle

RetryNext ==
  \/ OpResolves
  \/ OpRejects
  \/ WaitElapses

SpecRetry == RetryInit /\ [][RetryNext]_vars

----------------------------------------------------------------------------
(* One mounted entity list hook *)

\* The rows a list request matches: `query.eq('status', status)` when the
\* filter is given.
Matching(t, f) ==
  {i \in HookIds : t[i] # NoRow /\ (f.status = "any" \/ t[i] = f.status)}

\* The position of each row when ordered by name (by created_at it is its id).
NameRank == <<3, 1, 4, 2>>

SortKey(sortBy, i) == IF sortBy = "created_at" THEN i ELSE NameRank[i]

\* `query.order(sortBy, { ascending: sortOrder === 'asc' })`.
RECURSIVE Ordered(_, _, _)
Ordered(S, sortBy, sortOrder) ==
  IF S = {} THEN <<>>
  ELSE LET first == CHOOSE i \in S : \A j \in S :
                      IF sortOrder = "asc"
                      THEN SortKey(sortBy, i) <= SortKey(sortBy, j)
                      ELSE SortKey(sortBy, i) >= SortKey(sortBy, j)
       IN <<first>> \o Ordered(S \ {first}, sortBy, sortOrder)

RowOf(t, i) == [id |-> i, status |-> t[i]]

\* What getBusinesses(params) returns in `data` when the query succeeds.
getList(t, p) ==
  LET all == Ordered(Matching(t, p.filters), p.sortBy, p.sortOrder)
      r   == listRange(p.page, p.pageSize)
      idx == {k \in RangeRows(r) : k >= 0 /\ k < Len(all)}
  IN [data       |-> [n \in 1..Cardinality(idx) |-> RowOf(t, all[r.from + n])],
      total      |-> Len(all),
      page       |-> p.page,
      pageSize   |-> p.pageSize,
      totalPages |-> totalPages(Len(all), p.pageSize)]

\* A sequence without its i-th element.
Without(q, i) == SubSeq(q, 1, i - 1) \o SubSeq(q, i + 1, Len(q))

\* fetchBusinesses up to its await: setLoading(true), setError(null), the
\* request sent with the params of the render the callback belongs to.
FetchStart(h, p, reqs, log) ==
  /\ log.fetches < MaxFetches
  /\ hook' = [h EXCEPT !.loading = TRUE, !.error = NoHookError]
  /\ inflight' = Append(reqs, p)
  /\ hlog' = [log EXCEPT !.fetches = @ + 1]

\* The render after a handler left the state h, and the effect
\* `useEffect(() => { fetchBusinesses() }, [fetchBusinesses])`: fetchBusinesses is
\* a new callback, and the effect runs, when one of filters, pagination.page,
\* pagination.pageSize, sortBy, sortOrder changed (changed: a new filters object).
Commit(h, changed, reqs, log) ==
  IF changed \/ ParamsOf(h) # ParamsOf(hook)
  THEN FetchStart(h, ParamsOf(h), reqs, log)
  ELSE /\ hook' = h
       /\ inflight' = reqs
       /\ hlog' = log

\* setFilters(newFilters): the pages pass a new object each time.
setFilters ==
  \E f \in HookFilters :
    /\ Commit([hook EXCEPT !.filters = f, !.page = 1], TRUE, inflight,
              [hlog EXCEPT !.op = Op("setFilters", f)])
    /\ UNCHANGED <<btable, mcalls, hret, nonHookVars>>

setPage ==
  \E n \in HookPages :
    /\ Commit([hook EXCEPT !.page = n], FALSE, inflight,
              [hlog EXCEPT !.op = Op("setPage", n)])
    /\ UNCHANGED <<btable, mcalls, hret, nonHookVars>>

\* The updater of setPageSize as it would be without the reset of the page.
pageSizeUpdater_KeepPage(prev, pageSize) == [prev EXCEPT !.pageSize = pageSize]

\* `prev => ({ ...prev, pageSize, page: 1 })`.
pageSizeUpdater(prev, pageSize) == [prev EXCEPT !.pageSize = pageSize, !.page = 1]

setPageSize ==
  \E n \in HookPageSizes :
    /\ Commit(pageSizeUpdater(hook, n), FALSE, inflight,
              [hlog EXCEPT !.op = Op("setPageSize", n)])
    /\ UNCHANGED <<btable, mcalls, hret, nonHookVars>>

setSortBy ==
  \E b \in HookSortBys :
    /\ Commit([hook EXCEPT !.sortBy = b], FALSE, inflight,
              [hlog EXCEPT !.op = Op("setSortBy", b)])
    /\ UNCHANGED <<btable, mcalls, hret, nonHookVars>>

setSortOrder ==
  \E o \in HookSortOrders :
    /\ Commit([hook EXCEPT !.sortOrder = o], FALSE, inflight,
              [hlog EXCEPT !.op = Op("setSortOrder", o)])
    /\ UNCHANGED <<btable, mcalls, hret, nonHookVars>>

\* `refetch: fetchBusinesses`.
refetch ==
  /\ FetchStart(hook, ParamsOf(hook), inflight, [hlog EXCEPT !.op = Op("refetch", 0)])
  /\ UNCHANGED <<btable, mcalls, hret, nonHookVars>>

\* The store answers one of the requests in flight, whichever, and
\* fetchBusinesses continues after its await. A page below 1 asks for a negative
\* offset, which the store refuses.
FetchResponse ==
  \E i \in 1..Len(inflight), o \in {"ok", "error"} :
    LET p == inflight[i] IN
    /\ IF o = "error" \/ p.page < 1
       THEN /\ hook' = [hook EXCEPT !.error = ErrFetch, !.loading = FALSE]
            /\ inflight' = Without(inflight, i)
            /\ hlog' = [hlog EXCEPT !.last = "failed", !.op = Op("response", 0)]
       ELSE LET r == getList(btable, p) IN
            Commit([hook EXCEPT !.rows = r.data, !.page = r.page,
                                !.pageSize = r.pageSize, !.total = r.total,
                                !.totalPages = r.totalPages, !.loading = FALSE],
                   FALSE, Without(inflight, i),
                   [hlog EXCEPT !.last = "ok", !.op = Op("response", 0)])
    /\ UNCHANGED <<btable, mcalls, hret, nonHookVars>>

\* The ids of the rows the hook shows: the pages call updateStatus and delete
\* with the id of a row of the list.
ShownIds == {hook.rows[n].id : n \in DOMAIN hook.rows}

\* The map of updateStatus as it would be without the test of the id.
ReplaceRow_Every(shown, id, updated) == [n \in DOMAIN shown |-> updated]

\* `prev.map(b => b.id === id ? updatedBusiness : b)`.
ReplaceRow(shown, id, updated) ==
  [n \in DOMAIN shown |-> IF shown[n].id = id THEN updated ELSE shown[n]]

\* `prev.filter(b => b.id !== id)`.
RemoveRow(shown, id) == SelectSeq(shown, LAMBDA b : b.id # id)

\* updateStatus(id, status), with the store's answer: `.single()` reports an
\* error when no row has the id.
updateStatus ==
  \E id \in ShownIds, s \in HookStatuses, o \in {"ok", "error"} :
    /\ hlog.mutations < MaxMutations
    /\ hlog' = [hlog EXCEPT !.mutations = @ + 1,
                             !.op = Op("updateStatus",
                                       [id |-> id, status |-> s,
                                        ok |-> ~(o = "error" \/ btable[id] = NoRow)])]
    /\ IF o = "error" \/ btable[id] = NoRow
       THEN /\ hook' = [hook EXCEPT !.error = ErrUpdate]
            /\ hret' = [fn |-> "updateStatus", id |-> id, value |-> FALSE,
                        done |-> hret.done + 1]
            /\ UNCHANGED btable
       ELSE /\ btable' = [btable EXCEPT ![id] = s]
            /\ hook' = [hook EXCEPT
                          !.rows = ReplaceRow(hook.rows, id, RowOf(btable', id))]
            /\ hret' = [fn |-> "updateStatus", id |-> id, value |-> TRUE,
                        done |-> hret.done + 1]
    /\ UNCHANGED <<inflight, mcalls, nonHookVars>>

\* deleteBusiness(id) up to its await. The callback is the one of the render it
\* is called in: it holds that render's businesses.length, pagination.page and
\* fetchBusinesses.
deleteStart ==
  \E id \in ShownIds :
    /\ hlog.mutations < MaxMutations
    /\ hlog' = [hlog EXCEPT !.mutations = @ + 1, !.op = Op("delete", id)]
    /\ mcalls' = Append(mcalls, [id |-> id, length |-> Len(hook.rows),
                                 page |-> hook.page, params |-> ParamsOf(hook)])
    /\ UNCHANGED <<hook, btable, inflight, hret, nonHookVars>>

\* The store answers a delete and deleteBusiness continues after its await.
deleteAnswer ==
  \E i \in 1..Len(mcalls), o \in {"ok", "error"} :
    LET c == mcalls[i] IN
    /\ mcalls' = Without(mcalls, i)
    /\ IF o = "error"
       THEN /\ hook' = [hook EXCEPT !.error = ErrDelete]
            /\ hret' = [fn |-> "delete", id |-> c.id, value |-> FALSE,
                        done |-> hret.done + 1]
            /\ hlog' = [hlog EXCEPT !.op = Op("deleted", [id |-> c.id, ok |-> FALSE])]
            /\ UNCHANGED <<btable, inflight>>
       ELSE /\ btable' = [btable EXCEPT ![c.id] = NoRow]
            /\ hret' = [fn |-> "delete", id |-> c.id, value |-> TRUE,
                        done |-> hret.done + 1]
            /\ LET h == [hook EXCEPT !.rows = RemoveRow(hook.rows, c.id)] IN
               IF c.length = 1 /\ c.page > 1
               THEN Commit([h EXCEPT !.page = hook.page - 1], FALSE, inflight,
                           [hlog EXCEPT !.op = Op("deleted", [id |-> c.id, ok |-> TRUE])])
               ELSE FetchStart(h, c.params, inflight,
                               [hlog EXCEPT !.op = Op("deleted", [id |-> c.id, ok |-> TRUE])])
    /\ UNCHANGED nonHookVars

\* The hook after its first render and effect: the first list request is sent.
HookMounted ==
  /\ hook = InitialHook
  /\ btable = InitialTable
  /\ inflight = <<ParamsOf(InitialHook)>>
  /\ mcalls = <<>>
  /\ hret = NoHookRet
  /\ hlog = [fetches |-> 1, mutations |-> 0, last |-> "none", op |-> Op("mount", 0)]

ListInit ==
  /\ HookMounted
  /\ AuthIdle
  /\ FnIdle
  /\ LegalIdle
  /\ StatusIdle
  /\ RetryIdle
  /\ StatsIdle
  /\ PaginationIdle

\* The list side of the hook: the setters, refetch and the responses.
ListNext ==
  \/ setFilters
  \/ setPage
  \/ setPageSize
  \/ setSortBy
  \/ setSortOrder
  \/ refetch
  \/ FetchResponse

SpecList == ListInit /\ [][ListNext]_vars

\* The hook showing a page of two rows at most: mounted, setPageSize(2) and maybe
\* setFilters and setPage called, every response arrived.
HookLoaded ==
  /\ btable \in HookTables
  /\ \E f \in HookFilters, n \in HookPages :
       LET h == [InitialHook EXCEPT !.filters = f, !.page = n, !.pageSize = 2]
           r == getList(btable, ParamsOf(h))
       IN hook = [h EXCEPT !.rows = r.data, !.total = r.total,
                           !.totalPages = r.totalPages, !.loading = FALSE]
  /\ inflight = <<>>
  /\ mcalls = <<>>
  /\ hret = NoHookRet
  /\ hlog = [fetches |-> 0, mutations |-> 0, last |-> "ok", op |-> Op("response", 0)]

HookInit ==
  /\ HookLoaded
  /\ AuthIdle
  /\ FnIdle
  /\ LegalIdle
  /\ StatusIdle
  /\ RetryIdle
  /\ StatsIdle
  /\ PaginationIdle

\* Nothing is awaited: the pages offer a row's actions one at a time, in a modal
\* that stays open until the call has resolved.
HookQuiet == inflight = <<>> /\ mcalls = <<>>

\* The mutations of the hook, called one at a time on a loaded page.
HookNext ==
  \/ HookQuiet /\ updateStatus
  \/ HookQuiet /\ deleteStart
  \/ deleteAnswer
  \/ FetchResponse

SpecHook == HookInit /\ [][HookNext]_vars

MutateInit ==
  /\ HookLoaded
  /\ AuthIdle
  /\ FnIdle
  /\ LegalIdle
  /\ StatusIdle
  /\ RetryIdle
  /\ StatsIdle
  /\ PaginationIdle

\* The mutations of the hook, called at any time: while list requests and
\* deletes are awaited too.
MutateNext ==
  \/ updateStatus
  \/ deleteStart
  \/ deleteAnswer
  \/ FetchResponse

SpecMutate == MutateInit /\ [][MutateNext]_vars

-----------------------------------------------------------------------------
(* getUserStats beside the writes of other sessions *)

StatsInit ==
  /\ utable \in [UserIds -> UserRows]
  /\ ustats = [pc |-> 0, counts |-> NoCounts, stats |-> NoStats]
  /\ AuthIdle
  /\ FnIdle
  /\ LegalIdle
  /\ StatusIdle
  /\ RetryIdle
  /\ HookIdle
  /\ PaginationIdle

StatsNext ==
  \/ getUserStats
  \/ StatsQueryAnswer
  \/ insertUser
  \/ deleteUser
  \/ updateUserStatus

SpecStats == StatsInit /\ [][StatsNext]_vars

-----------------------------------------------------------------------------
(* usePagination, each call made on the latest render *)

\* `Math.max(1, Math.ceil(total / pageSize))`.
paginationTotalPages(total, pageSize) ==
  IF totalPages(total, pageSize) < 1 THEN 1 ELSE totalPages(total, pageSize)

\* `Math.max(1, Math.min(newPage, totalPages))`.
boundedPage(newPage, pageCount) ==
  LET least == IF newPage < pageCount THEN newPage ELSE pageCount
  IN IF least < 1 THEN 1 ELSE least

\* A setTotal that leaves the page where it is.
adjustedPage_Keep(page, newTotalPages) == page

\* `if (page > newTotalPages) setPageState(newTotalPages)`.
adjustedPage(page, newTotalPages) ==
  IF page > newTotalPages THEN newTotalPages ELSE page

\* totalPages of the current render.
PgTotalPages == paginationTotalPages(pg.total, pg.pageSize)

pgSetPage ==
  /\ \E newPage \in 0..(MaxPage + 1) :
       pg' = [pg EXCEPT !.page = boundedPage(newPage, PgTotalPages),
                        !.op = "setPage"]
  /\ UNCHANGED nonPgVars

pgSetPageSize ==
  /\ \E newPageSize \in 1..MaxPageSize :
       pg' = [pg EXCEPT !.pageSize = newPageSize, !.page = 1, !.op = "setPageSize"]
  /\ UNCHANGED nonPgVars

pgSetTotal ==
  /\ \E newTotal \in 0..MaxTotal :
       pg' = [pg EXCEPT
                !.total = newTotal,
                !.page = adjustedPage(pg.page,
                                      paginationTotalPages(newTotal, pg.pageSize)),
                !.op = "setTotal"]
  /\ UNCHANGED nonPgVars

\* canGoNext is page < totalPages of the render; the updater adds one.
nextPage ==
  /\ pg' = [pg EXCEPT !.page = IF pg.page < PgTotalPages THEN @ + 1 ELSE @,
                      !.op = "nextPage"]
  /\ UNCHANGED nonPgVars

\* canGoPrev is page > 1.
prevPage ==
  /\ pg' = [pg EXCEPT !.page = IF pg.page > 1 THEN @ - 1 ELSE @,
                      !.op = "prevPage"]
  /\ UNCHANGED nonPgVars

firstPage ==
  /\ pg' = [pg EXCEPT !.page = 1, !.op = "firstPage"]
  /\ UNCHANGED nonPgVars

lastPage ==
  /\ pg' = [pg EXCEPT !.page = PgTotalPages, !.op = "lastPage"]
  /\ UNCHANGED nonPgVars

resetPagination ==
  /\ pg' = [pg EXCEPT !.page = pg.initialPage, !.pageSize = pg.initialPageSize,
                      !.op = "resetPagination"]
  /\ UNCHANGED nonPgVars

PaginationInit ==
  /\ \E initialPageSize \in 1..MaxPageSize, initialTotal \in 0..MaxTotal :
       pg = InitialPagination(initialPageSize, initialTotal)
  /\ AuthIdle
  /\ FnIdle
  /\ LegalIdle
  /\ StatusIdle
  /\ RetryIdle
  /\ HookIdle
  /\ StatsIdle

PaginationNext ==
  \/ pgSetPage
  \/ pgSetPageSize
  \/ pgSetTotal
  \/ nextPage
  \/ prevPage
  \/ firstPage
  \/ lastPage
  \/ resetPagination

SpecPagination == PaginationInit /\ [][PaginationNext]_vars

-----------------------------------------------------------------------------
(* generateSlug and the slug rule of the legal-page form *)

\* Longest title tried.
MaxTitleLen == 3

\* One character of each kind the three replacements and the slug rule tell
\* apart: lower-case letter, upper-case letter, digit, white space, hyphen,
\* underscore, any other character.
TitleChars == {"a", "A", "7", " ", "-", "_", "!"}

Titles == UNION {[1..n -> TitleChars] : n \in 0..MaxTitleLen}

\* \w of a regular expression: [A-Za-z0-9_].
WordChars == {"a", "A", "7", "_"}

\* \s.
SpaceChars == {" "}

\* String.prototype.toLowerCase.
toLowerCase(str) == [i \in DOMAIN str |-> IF str[i] = "A" THEN "a" ELSE str[i]]

\* String.prototype.trim: white space removed at both ends.
trim(str) ==
  LET inked == {i \in DOMAIN str : str[i] \notin SpaceChars} IN
    IF inked = {} THEN <<>>
    ELSE SubSeq(str, CHOOSE i \in inked : \A j \in inked : i <= j,
                     CHOOSE i \in inked : \A j \in inked : i >= j)

\* .replace(/[^\w\s-]/g, '').
removeSpecial(str) ==
  SelectSeq(str, LAMBDA c : c \in WordChars \cup SpaceChars \cup {"-"})

RECURSIVE DropRun(_, _)
DropRun(str, S) ==
  IF str = <<>> \/ Head(str) \notin S THEN str ELSE DropRun(Tail(str), S)

\* .replace(/S+/g, r): every longest run of characters of S becomes one r.
RECURSIVE ReplaceRuns(_, _, _)
ReplaceRuns(str, S, r) ==
  IF str = <<>> THEN <<>>
  ELSE IF Head(str) \in S THEN <<r>> \o ReplaceRuns(DropRun(str, S), S, r)
  ELSE <<Head(str)>> \o ReplaceRuns(Tail(str), S, r)

generateSlug(title) ==
  ReplaceRuns(ReplaceRuns(removeSpecial(trim(toLowerCase(title))),
                          SpaceChars, "-"),
              {"-"}, "-")

\* /^[a-z0-9-]+$/.test(slug) of validateForm.
SlugRule(slug) ==
  /\ slug # <<>>
  /\ \A i \in DOMAIN slug : slug[i] \in {"a", "7", "-"}

SlugInit ==
  /\ call \in [fn : {"generateSlug"}, title : Titles]
  /\ ret = NoRet
  /\ AuthIdle
  /\ LegalIdle
  /\ StatusIdle
  /\ RetryIdle
  /\ HookIdle
  /\ StatsIdle
  /\ PaginationIdle

\* The form's effect: the slug field is set to generateSlug(title).
generateSlugCall ==
  /\ call.fn = "generateSlug"
  /\ ret = NoRet
  /\ ret' = [fn |-> "generateSlug", slug |-> generateSlug(call.title)]
  /\ UNCHANGED <<call, nonFnVars>>

SpecSlug == SlugInit /\ [][generateSlugCall]_vars

----------------------------------------------------------------------------
(* Claims *)

\* C1: whenever an admin page under ProtectedRoute is rendered, the auth context is
\* not loading and holds a non-null user whose user_type is 'admin', whichever path
\* installed the user.
C1_AdminPageOnlyForAdmin ==
  AdminPageRendered =>
    /\ ~loading
    /\ user # NoUser
    /\ user.user_type = "admin"

\* C1 witness: an admin page is rendered for a user adopted from the cache, the
\* background verification still in flight.
C1_Witness ==
  /\ AdminPageRendered
  /\ verify.kind = "bg"
  /\ ~verify.res.ready

\* C2 (as claimed): authService.register is called only by an authenticated admin.
C2_RegisterOnlyByAdmin ==
  [][(reg = "idle" /\ reg' = "signUp") =>
       (user # NoUser /\ user.user_type = "admin")]_vars

\* C3 (as claimed): login returns a non-null user only for an admin profile, and
\* whenever the credentials were accepted but the login is rejected, signOut was
\* called before the return, the response is session = null, user = null and a
\* non-null error, and no backend session is left signed in.
C3_RejectedLoginSignsOut ==
  (ret # NoRet /\ ret.fn = "login") =>
    /\ ret.resp.user # NoUser => ret.resp.user.user_type = "admin"
    /\ (ret.resp.accepted /\ ret.resp.user = NoUser) =>
         /\ ret.resp.signOutCalled
         /\ ~ret.resp.session
         /\ ret.resp.error # NoError
         /\ ret.session = "none"

\* C9 (as claimed): from every state in which loading is true, loading eventually
\* becomes false, even when a backend call never answers.
C9_LoadingNeverStuck == loading ~> ~loading

\* C10 (as claimed): after an unauthenticated visit to a protected path P was
\* redirected to /login (P saved in location.state.from), the next successful
\* login leads back to P.
C10_LoginReturnsToSavedLocation ==
  [][(login.pc # "idle" /\ login'.pc = "idle" /\ user = NoUser /\ user' # NoUser
        /\ from # "none") => path' = from]_vars

\* C4 (as claimed): no two legal pages ever share a slug, whatever the
\* interleaving of createLegalPage and updateLegalPage calls of concurrent sessions.
C4_SlugsPairwiseDistinct ==
  \A p, q \in pages : p.slug = q.slug => p.id = q.id

\* C5 (as claimed): a createLegalPage whose slug is held by an existing page, and an
\* updateLegalPage whose input.slug is held by another page, returns the error
\* 'A legal page with this slug already exists' and writes nothing (an exception
\* thrown by the query is returned as such); an update to the page's own slug is
\* not rejected.
C5_HeldSlugIsRejected ==
  [][\A s \in Sessions :
       (lcall[s].pc = "check" /\ lcall'[s] # lcall[s]) =>
         IF SlugHolders(lcall[s]) # {}
         THEN /\ lcall'[s].op = "idle"
              /\ lret'[s] \in {ErrSlugExists, ErrRejected}
              /\ pages' = pages
         ELSE lret'[s] # ErrSlugExists]_vars

C7_ResultShape ==
  (ret # NoRet /\ ret.fn = "access") =>
    /\ ret.failed => (ret.payload # "value" /\ ret.error # NoError)
    /\ (~ret.failed /\ ret.error # ErrSlugExists) => ret.error = NoError
    /\ call.name \notin DeleteFns => (ret.payload = "value" <=> ret.error = NoError)

\* C8: a list call for page >= 1 and pageSize >= 1 asks for the rows
\* (page-1)*pageSize .. page*pageSize-1 and returns totalPages = the least n with
\* n*pageSize >= total; so the ranges of pages 1..totalPages are pairwise
\* disjoint, together contain every row index 0..total-1, and the range of the
\* last page holds an existing row whenever total > 0.
C8_PageRanges ==
  (ret # NoRet /\ ret.fn = "list") =>
    LET ps == call.pageSize
        n  == ret.totalPages
        Rows(p) == RangeRows(listRange(p, ps))
    IN /\ ret.range.from = (call.page - 1) * ps
       /\ ret.range.to = call.page * ps - 1
       /\ n * ps >= call.total
       /\ n > 0 => (n - 1) * ps < call.total
       /\ \A p, q \in 1..n : p # q => Rows(p) \cap Rows(q) = {}
       /\ \A i \in 0..(call.total - 1) : \E p \in 1..n : i \in Rows(p)
       /\ call.total > 0 => Rows(n) \cap (0..(call.total - 1)) # {}

\* A call for a page past the first, of a list whose last page is partly filled.
C8_Witness ==
  /\ ret # NoRet
  /\ ret.fn = "list"
  /\ call.page > 1
  /\ call.pageSize > 1
  /\ call.total % call.pageSize # 0
  /\ ret.totalPages > 1
  /\ ret.range.from > 0

\* C11, as stated: operation is invoked at most maxRetries + 1 times, again only
\* after the previous invocation failed; the call resolves with the first
\* successful result without a further invocation, and rejects, once all
\* maxRetries + 1 invocations failed, with the error of the last invocation.
C11_RetryRejectsWithLastError ==
  LET done == Len(retry.outs) IN
    /\ retry.invoked <= retry.maxRetries + 1
    /\ retry.invoked - done \in {0, 1}
    /\ \A i \in 1..(retry.invoked - 1) : ~retry.outs[i].ok
    /\ retry.pc = "resolved" =>
         (done = retry.invoked /\ retry.outs[done].ok /\ retry.result = retry.outs[done])
    /\ retry.pc = "rejected" =>
         (done = retry.maxRetries + 1 /\ retry.result = retry.outs[done])

\* C11, amended: as stated, but the rejection is the error of the last
\* invocation only when that is an Error instance; when the last invocation
\* rejected with anything else, the rejection is a new Error('Unknown error').
C11_RetryRejectsWithNormalizedError ==
  LET done == Len(retry.outs) IN
    /\ retry.invoked <= retry.maxRetries + 1
    /\ retry.invoked - done \in {0, 1}
    /\ \A i \in 1..(retry.invoked - 1) : ~retry.outs[i].ok
    /\ retry.pc = "resolved" =>
         (done = retry.invoked /\ retry.outs[done].ok /\ retry.result = retry.outs[done])
    /\ retry.pc = "rejected" =>
         /\ done = retry.maxRetries + 1
         /\ \A i \in 1..done : ~retry.outs[i].ok
         /\ retry.result = IF retry.outs[done].isError THEN retry.outs[done]
                           ELSE UnknownError

\* Two retries allowed, all three invocations failed, the last with no Error.
C11_Witness ==
  /\ retry.pc = "rejected"
  /\ retry.maxRetries = 2
  /\ retry.invoked = 3
  /\ ~retry.outs[3].isError
  /\ retry.outs[2].isError

\* C12: with backoff the wait after the k-th failed attempt (k from 0) is
\* delay * 2^k, without it delay; no wait follows the final failed attempt; the
\* waits of a call add up to at most delay * (2^maxRetries - 1).
C12_ExponentialBackoff ==
  LET n == Len(retry.waits)
      Sum[k \in 0..n] == IF k = 0 THEN 0 ELSE Sum[k - 1] + retry.waits[k]
  IN /\ \A k \in 1..n :
          retry.waits[k] = IF retry.backoff THEN retry.delay * 2^(k - 1) ELSE retry.delay
     /\ n <= retry.maxRetries
     /\ retry.pc = "wait" => n = Len(retry.outs)
     /\ retry.pc = "rejected" => n = Len(retry.outs) - 1
     /\ Sum[n] <= retry.delay * (2^retry.maxRetries - 1)

\* Three retries with backoff, all waits made: 1, 2 and 4 times the delay.
C12_Witness ==
  /\ retry.backoff
  /\ retry.delay = MaxDelay
  /\ retry.maxRetries = 3
  /\ Len(retry.waits) = 3
  /\ retry.pc = "rejected"

\* C13: in an entity list hook, after any sequence of setFilters, setPage,
\* setPageSize, setSortBy, setSortOrder and refetch calls, whenever no list request
\* is in flight and the latest completed one did not fail, the rows and the
\* pagination shown are those of the response to the request built from the hook's
\* current filters, page, pageSize, sortBy and sortOrder, in whatever order the
\* responses of overlapping requests arrived.
C13_RowsAreOfCurrentParams ==
  (inflight = <<>> /\ hlog.last = "ok") =>
    LET r == getList(btable, ParamsOf(hook)) IN
    /\ hook.rows = r.data
    /\ hook.total = r.total
    /\ hook.totalPages = r.totalPages
    /\ hook.page = r.page
    /\ hook.pageSize = r.pageSize
\* A getCurrentUser result from before the latest logout is applied and installs
\* a user: the verification of initAuth, or the handler of an auth event.
StaleInstall ==
  /\ user = NoUser
  /\ user' # NoUser
  /\ \/ /\ stale.verify
        /\ verify.kind # "none"
        /\ verify.res.ready
        /\ verify'.kind = "none"
        /\ user' = verify.res.user
     \/ \E u \in stale.events :
          /\ u \in evq
          /\ evq' = evq \ {u}
          /\ user' = u

\* C14: after logout() has resolved, the user stays null and the cache stays empty
\* until the next successful login or a sign-in event of a new session; no result
\* of a getCurrentUser call started before the logout (the verification of
\* initAuth, the handler of an earlier SIGNED_IN / TOKEN_REFRESHED event) installs
\* a user again.
C14_NoUserFromBeforeLogout == [][~StaleInstall]_vars
\* The background verification is applied, its getCurrentUser call having failed
\* with an error of the backend or a rejection (a timeout, the network).
BackgroundVerificationFailed ==
  /\ verify.kind = "bg"
  /\ verify.res.ready
  /\ verify.res.error \in {ErrBackend, ErrRejected}
  /\ verify'.kind = "none"

\* C15: a background verification that fails with an error (a timeout, a network
\* failure, a backend error), rather than answering that there is no admin
\* session, does not clear the user: the user and the cache entry stay as they were.
C15_BackgroundErrorKeepsUser ==
  [][BackgroundVerificationFailed => user' = user /\ cache' = cache]_vars
\* A step that can only be the mount effect of AuthProvider: it arms the fallback
\* timer again, or starts a verification of another kind than the one pending.
MountStep ==
  \/ timer = "done" /\ timer' = "armed"
  \/ verify'.kind # "none" /\ verify'.kind # verify.kind

\* The cache entry is younger than five minutes and holds a user.
FreshCachedUser ==
  /\ cache.present
  /\ cache.age < AUTH_CACHE_EXPIRY
  /\ cache.user # NoUser

\* The background verification is applied, getCurrentUser having answered that
\* there is no admin session: no session, or a profile that is not an admin's.
BackgroundVerificationNoAdmin ==
  /\ verify.kind = "bg"
  /\ verify.res.ready
  /\ verify.res.user = NoUser
  /\ verify.res.error \in {NoError, ErrDenied}
  /\ verify'.kind = "none"

\* C16: at initialization the cached user is adopted only if the cache entry is
\* younger than five minutes and holds a non-null user; when it is adopted a
\* background getCurrentUser starts, and if that answers that there is no admin
\* session the user is set to null and the cache entry is removed.
C16_CachedUserAdoption ==
  [][/\ MountStep =>
          IF FreshCachedUser
          THEN /\ user' = cache.user
               /\ ~loading'
               /\ verify' = [kind |-> "bg", res |-> NoRes]
          ELSE /\ user' = NoUser
               /\ verify' = [kind |-> "fg", res |-> NoRes]
     /\ BackgroundVerificationNoAdmin => user' = NoUser /\ cache' = NoCache]_vars

C16_Witness ==
  /\ verify.kind = "bg"
  /\ verify.res.ready
  /\ verify.res.user = NoUser
  /\ verify.res.error = NoError
  /\ user # NoUser
  /\ ~loading
  /\ FreshCachedUser
\* The fallback timer of the mount effect fires.
FallbackFires == timer = "armed" /\ timer' = "done"

\* C17: the 15 s fallback timer changes the auth state only if the context is
\* still loading when it fires; when loading is already false it sets neither
\* loading nor the error 'Authentication verification timed out'.
C17_FallbackOnlyWhileLoading ==
  [][FallbackFires /\ ~loading => loading' = loading /\ error' = error]_vars
\* C18: setFilters(f) sets the filters to f and the page to 1, setPageSize(n) sets
\* the page size to n and the page to 1, and each leaves sortBy, sortOrder, total
\* and the other of the two unchanged; setPage, setSortBy and setSortOrder change
\* only their own field and do not reset the page.
C18_SettersTouchOwnFields ==
  [][LET op == hlog'.op
         SameBut(fields) ==
           \A k \in {"filters", "page", "pageSize", "total", "totalPages",
                     "sortBy", "sortOrder", "rows"} \ fields : hook'[k] = hook[k]
     IN /\ op.fn = "setFilters" =>
             /\ hook'.filters = op.arg
             /\ hook'.page = 1
             /\ SameBut({"filters", "page"})
        /\ op.fn = "setPageSize" =>
             /\ hook'.pageSize = op.arg
             /\ hook'.page = 1
             /\ SameBut({"pageSize", "page"})
        /\ op.fn = "setPage" => hook'.page = op.arg /\ SameBut({"page"})
        /\ op.fn = "setSortBy" => hook'.sortBy = op.arg /\ SameBut({"sortBy"})
        /\ op.fn = "setSortOrder" =>
             hook'.sortOrder = op.arg /\ SameBut({"sortOrder"})]_vars

\* setPageSize(2) was called on page 2 of a loaded list and reset the page.
C18_Witness ==
  /\ hlog.op = Op("setPageSize", 2)
  /\ hook.page = 1
  /\ hook.pageSize = 2
  /\ hook.total > 0
  /\ \E i \in DOMAIN inflight :
       inflight[i].page = 2 /\ inflight[i].pageSize = DEFAULT_PAGE_SIZE
\* The latest call into the hook was a delete that succeeded, and the list request
\* it led to has been answered with rows.
DeleteSettled ==
  /\ HookQuiet
  /\ hret.fn = "delete"
  /\ hret.value
  /\ hlog.op.fn = "response"
  /\ hlog.last = "ok"

\* C19: a delete through an entity hook never leaves the hook on an empty page
\* while rows exist: after a successful delete and the completion of the fetch it
\* triggers, page >= 1 and, if total > 0, the hook's row list is not empty.
C19_DeleteLeavesNoEmptyPage ==
  DeleteSettled => hook.page >= 1 /\ (hook.total > 0 => hook.rows # <<>>)
\* The pagination, the filters and the sort of the hook stay as they are.
HookFrame ==
  \A k \in {"page", "pageSize", "total", "totalPages", "filters", "sortBy",
            "sortOrder"} : hook'[k] = hook[k]

\* C20: a successful updateStatus(id, s) replaces exactly the local row with that
\* id by the row the backend returned, keeps the number and the order of the rows,
\* the pagination, the filters and the sort, and returns true; a failed
\* updateStatus or delete leaves the rows and the pagination unchanged, sets the
\* error and returns false.
C20_MutationFrame ==
  [][LET op == hlog'.op
         resolved == hret'.done = hret.done + 1
     IN /\ (op.fn = "updateStatus" /\ resolved /\ op.arg.ok) =>
             /\ Len(hook'.rows) = Len(hook.rows)
             /\ \A n \in DOMAIN hook.rows :
                  hook'.rows[n] = IF hook.rows[n].id = op.arg.id
                                  THEN [id |-> op.arg.id, status |-> op.arg.status]
                                  ELSE hook.rows[n]
             /\ btable'[op.arg.id] = op.arg.status
             /\ HookFrame
             /\ hret'.fn = "updateStatus"
             /\ hret'.value = TRUE
        /\ (op.fn \in {"updateStatus", "deleted"} /\ resolved /\ ~op.arg.ok) =>
             /\ hook'.rows = hook.rows
             /\ HookFrame
             /\ hook'.error # NoHookError
             /\ hret'.value = FALSE
             /\ btable' = btable]_vars

\* An updateStatus call succeeded on the second of two rows shown and a later one
\* failed, with the list still filtered by the status the row has lost.
C20_Witness ==
  /\ hlog.op.fn = "updateStatus"
  /\ ~hlog.op.arg.ok
  /\ hret.value = FALSE
  /\ hook.error = ErrUpdate
  /\ hook.filters.status = "active"
  /\ Len(hook.rows) = 2
  /\ hook.rows[1].status = "active"
  /\ hook.rows[2].status = "suspended"
\* C21: while a status filter is set in an entity list hook and no list request is
\* in flight, every row of the hook's list has the filtered status, also after a
\* successful updateStatus on one of the listed rows.
C21_RowsHaveFilteredStatus ==
  (hook.filters.status # "any" /\ inflight = <<>>) =>
    \A n \in DOMAIN hook.rows : hook.rows[n].status = hook.filters.status
\* The status changes the cards are said to request: from each status, the
\* statuses it may be changed to (approved standing for active on companies).
Activated(e) == IF e = "company" THEN "approved" ELSE "active"

SaidCardChanges(e, status) ==
  IF status = "pending" THEN {Activated(e), "rejected"}
  ELSE IF status = Activated(e) THEN {"suspended"}
  ELSE IF status \in {"suspended", "rejected"} THEN {Activated(e)}
  ELSE IF e = "service" /\ status = "requestDeletion" THEN {"active"}
  ELSE {}

CardChange ==
  \A id \in RowIds :
    /\ scall'.id = id /\ scall' # scall =>
         /\ scall'.status \in SaidCardChanges(entity, rows[id].status)
         /\ scall'.status \notin {"pending", "removed", "deleted", "requestDeletion"}
    /\ rows'[id].status # rows[id].status =>
         /\ rows'[id].status \in SaidCardChanges(entity, rows[id].status)
         /\ rows'[id].status # "pending"
         /\ rows[id].status \notin {"removed", "deleted"}

\* C22: the status changes requested from the cards are exactly pending to
\* active/approved or rejected, active/approved to suspended, suspended or rejected
\* to active/approved and, for services, requestDeletion to active; no card
\* requests pending, removed, deleted or requestDeletion, so no entity returns to
\* pending and no entity in removed or deleted changes status.
C22_CardStatusChanges ==
  /\ [](\A s \in StatusOf(entity) : CardActions(entity, s) = SaidCardChanges(entity, s))
  /\ [][CardChange]_vars

\* A service awaiting deletion was reactivated from its card.
C22_Witness ==
  /\ entity = "service"
  /\ scall = [id |-> "r1", status |-> "active"]
  /\ rows["r1"].status = "active"
  /\ rows["r1"].updated_at = 2
  /\ rows["r2"].status = "deleted"

\* A service row whose is_active agrees with its status.
InStep(row) ==
  /\ row.status = "active" => row.is_active
  /\ row.status \in {"suspended", "rejected", "deleted"} => ~row.is_active

\* A successful updateServiceStatus wrote a row: the status of the new row is the
\* status of the call.
ServiceRowWritten ==
  \A id \in RowIds :
    rows'[id] # rows[id] =>
      /\ InStep(rows'[id])
      /\ rows'[id].status \in {"pending", "requestDeletion"} =>
           rows'[id].is_active = rows[id].is_active

\* C23: a successful updateServiceStatus(id, s) leaves is_active true for s = active,
\* false for s suspended, rejected or deleted, and as it was for s pending or
\* requestDeletion; so, after any sequence of status updates, an active service has
\* is_active true and a suspended, rejected or deleted one has it false.
C23_IsActiveInStep ==
  /\ [][entity = "service" => ServiceRowWritten]_vars
  /\ [](entity = "service" =>
          \A id \in RowIds :
            rows[id].status # "pending" \/ rows[id].updated_at > 0 => InStep(rows[id]))

\* A service created with is_active true was suspended, and another one was
\* asked to be deleted and kept its is_active.
C23_Witness ==
  /\ entity = "service"
  /\ rows["r1"].status = "suspended" /\ ~rows["r1"].is_active
  /\ rows["r2"].status = "requestDeletion" /\ rows["r2"].is_active
  /\ rows["r2"].updated_at = 2
  /\ scall = [id |-> "r2", status |-> "requestDeletion"]

\* C24: every stats object getUserStats returns is consistent: 0 <= active <= total,
\* inactive = total - active >= 0 and customers + providers + admins <= total, also
\* when other sessions insert, delete or toggle users between the count queries.
C24_StatsConsistent ==
  (ustats.pc = StatsReturned /\ ustats.stats.ok) =>
    LET st == ustats.stats IN
      /\ 0 <= st.active /\ st.active <= st.total
      /\ st.inactive = st.total - st.active /\ st.inactive >= 0
      /\ st.customers + st.providers + st.admins <= st.total

\* C25: for every title whose generateSlug is not empty, the slug satisfies the
\* form's slug rule: only lower-case letters, digits and hyphens.
C25_GeneratedSlugIsValid ==
  (ret.fn = "generateSlug" /\ ret.slug # <<>>) => SlugRule(ret.slug)

\* C26: in usePagination started on page 1 with a positive page size, after any
\* sequence of calls each made on the latest render, 1 <= page <= totalPages, and
\* totalPages is the least count of pages, at least one, that holds total rows.
C26_PageWithinBounds ==
  /\ 1 <= pg.page /\ pg.page <= PgTotalPages
  /\ PgTotalPages >= 1
  /\ PgTotalPages * pg.pageSize >= pg.total
  /\ PgTotalPages > 1 => (PgTotalPages - 1) * pg.pageSize < pg.total

\* setTotal was called on a page beyond the new last page and brought the page
\* back to it.
C26_Witness ==
  /\ pg.op = "setTotal"
  /\ pg.total = 3 /\ pg.pageSize = 2 /\ pg.page = 2
  /\ pg.initialPageSize = 1

====
